---- MODULE Spec2Model ----
(***************************************************************************)
(* The staged on-chain transaction workflows of the command line client:   *)
(* "claim nii" (src/src/commands/claim-commands/nii.js) and "claim fees"   *)
(* (the command module printed in src/src/commands/pay.spec.js from line   *)
(* 185 on).  One behaviour is one invocation of one handler.  Every await  *)
(* of a handler is one action: the call is made, the collaborator answers  *)
(* (a value drawn from a small set, or a rejection with a message), and    *)
(* the synchronous code up to the next await runs.                         *)
(*                                                                         *)
(* JavaScript values that reach a validator are modelled by their type:    *)
(* a number (integers only), NaN, a string (a sequence of one-character    *)
(* strings) or undefined.  Amounts held as BigNumber are integers; a gas   *)
(* price in wei is kept as its decimal digits because 12 gwei in wei does  *)
(* not fit the integers of the model checker.                              *)
(***************************************************************************)
EXTENDS Integers, Sequences, FiniteSets, TLC

VARIABLES
    cmd,        \* the command whose handler is invoked
    argv,       \* the arguments the handler is invoked with
    pc,         \* the await the handler is suspended at
    loc,        \* the handler's local variables
    provider,   \* the chain-state provider: created, number of stopUpdate() calls
    calls,      \* the calls made to wallet, contracts, claimant and provider, in order
    spinner,    \* the notifications given to the progress reporter (ora), in order
    stdout,     \* what console.log wrote, in order
    result      \* the promise the handler returned: pending, resolved or rejected

vars == <<cmd, argv, pc, loc, provider, calls, spinner, stdout, result>>

----------------------------------------------------------------------------
(* Bounds of the model *)

\* balances, allowances and fee amounts range over 0..MaxAmount
MaxAmount == 2

----------------------------------------------------------------------------
(* JavaScript values *)

Undefined == [t |-> "undefined", n |-> 0, s |-> <<>>]
NaN == [t |-> "nan", n |-> 0, s |-> <<>>]
Num(n) == [t |-> "number", n |-> n, s |-> <<>>]
Str(s) == [t |-> "string", n |-> 0, s |-> s]

Digits == <<"0", "1", "2", "3", "4", "5", "6", "7", "8", "9">>

IsDigit(c) == \E i \in 1..10 : Digits[i] = c

DigitValue(c) == (CHOOSE i \in 1..10 : Digits[i] = c) - 1

\* the longest prefix of s made of decimal digits
RECURSIVE DigitPrefix(_)
DigitPrefix(s) ==
    IF s = <<>> \/ ~IsDigit(Head(s)) THEN <<>>
    ELSE <<Head(s)>> \o DigitPrefix(Tail(s))

\* the number written by a sequence of decimal digits
RECURSIVE DigitsToNat(_)
DigitsToNat(ds) ==
    IF ds = <<>> THEN 0
    ELSE 10 * DigitsToNat(SubSeq(ds, 1, Len(ds) - 1)) + DigitValue(ds[Len(ds)])

\* the decimal digits of a natural number
RECURSIVE NatToDigits(_)
NatToDigits(n) ==
    IF n < 10 THEN <<Digits[n + 1]>>
    ELSE NatToDigits(n \div 10) \o <<Digits[(n % 10) + 1]>>

RECURSIVE SkipSpaces(_)
SkipSpaces(s) ==
    IF s # <<>> /\ Head(s) = " " THEN SkipSpaces(Tail(s)) ELSE s

\* parseInt(v): the integer a value starts with, NaN when it starts with none
ParseIntString(s) ==
    LET t == SkipSpaces(s)
        neg == t # <<>> /\ Head(t) = "-"
        signed == t # <<>> /\ Head(t) \in {"-", "+"}
        ds == DigitPrefix(IF signed THEN Tail(t) ELSE t)
    IN  IF ds = <<>> THEN NaN
        ELSE Num(IF neg THEN 0 - DigitsToNat(ds) ELSE DigitsToNat(ds))

ParseInt(v) ==
    CASE v.t = "number" -> v
      [] v.t = "string" -> ParseIntString(v.s)
      [] OTHER -> NaN

\* the truth value JavaScript gives a value (in a || b, in !a)
IsTruthy(v) ==
    CASE v.t = "number" -> v.n # 0
      [] v.t = "string" -> v.s # <<>>
      [] OTHER -> FALSE

\* a || b
OrElse(a, b) == IF IsTruthy(a) THEN a ELSE b

\* a <= k and a < k for a number or NaN a: every comparison with NaN is false
NumLeq(a, k) == a.t = "number" /\ a.n <= k
NumLt(a, k) == a.t = "number" /\ a.n < k
NumGt(a, k) == a.t = "number" /\ a.n > k

\* a - 1 for a number or NaN
NumMinusOne(a) == IF a.t = "number" THEN Num(a.n - 1) ELSE NaN

\* Number.prototype.toString for an integer or NaN
NumToString(a) ==
    IF a.t # "number" THEN <<"N", "a", "N">>
    ELSE IF a.n < 0 THEN <<"-">> \o NatToDigits(0 - a.n)
    ELSE NatToDigits(a.n)

\* the string written by a sequence of characters
RECURSIVE Join(_)
Join(cs) == IF cs = <<>> THEN "" ELSE Head(cs) \o Join(Tail(cs))

RECURSIVE Zeros(_)
Zeros(k) == IF k <= 0 THEN <<>> ELSE <<"0">> \o Zeros(k - 1)

RECURSIVE StripLeadingZeros(_)
StripLeadingZeros(ds) ==
    IF Len(ds) > 1 /\ Head(ds) = "0" THEN StripLeadingZeros(Tail(ds)) ELSE ds

RECURSIVE StripTrailingZeros(_)
StripTrailingZeros(ds) ==
    IF Len(ds) > 1 /\ ds[Len(ds)] = "0"
    THEN StripTrailingZeros(SubSeq(ds, 1, Len(ds) - 1))
    ELSE ds

----------------------------------------------------------------------------
(* Natural numbers of any size, as sequences of the decimal digits 0..9, *)
(* most significant first; the numbers of a double do not fit an integer *)
(* of the model checker                                                  *)

DecZeros(k) == [i \in 1..k |-> 0]

\* without leading zeros
DecNorm(x) ==
    LET nz == {i \in 1..Len(x) : x[i] # 0}
    IN  IF nz = {} THEN <<0>>
        ELSE SubSeq(x, CHOOSE i \in nz : \A j \in nz : i <= j, Len(x))

\* 2 * x: the carry into a digit is 1 exactly when the next digit is 5 or more
DecDouble(x) ==
    LET n == Len(x)
        carry(i) == IF i < n /\ x[i + 1] >= 5 THEN 1 ELSE 0
    IN  DecNorm(<<IF x[1] >= 5 THEN 1 ELSE 0>>
                \o [i \in 1..n |-> (2 * x[i] + carry(i)) % 10])

\* x div 2: a digit takes 10 from the digit before it when that one is odd
DecHalf(x) ==
    LET borrow(i) == IF i > 1 /\ x[i - 1] % 2 = 1 THEN 10 ELSE 0
    IN  DecNorm([i \in 1..Len(x) |-> (x[i] + borrow(i)) \div 2])

DecIsOdd(x) == x[Len(x)] % 2 = 1

\* x + 1
DecSucc(x) ==
    LET not9 == {i \in 1..Len(x) : x[i] # 9}
    IN  IF not9 = {} THEN <<1>> \o DecZeros(Len(x))
        ELSE LET k == CHOOSE i \in not9 : \A j \in not9 : j <= i
             IN  [i \in 1..Len(x) |->
                    IF i < k THEN x[i] ELSE IF i = k THEN x[i] + 1 ELSE 0]

\* x < y and x <= y, for numbers without leading zeros
DecLess(x, y) ==
    \/ Len(x) < Len(y)
    \/ /\ Len(x) = Len(y)
       /\ \E i \in 1..Len(x) : x[i] < y[i] /\ \A j \in 1..(i - 1) : x[j] = y[j]

DecLeq(x, y) == ~DecLess(y, x)

\* x * 10^d
DecTimesTenTo(x, d) == IF x = <<0>> THEN x ELSE x \o DecZeros(d)

\* x * 2^k, x * 5^k and x div 2^k, by halves of k to keep the evaluation shallow
RECURSIVE DecTimesTwoTo(_, _)
DecTimesTwoTo(x, k) ==
    IF k <= 0 \/ x = <<0>> THEN x
    ELSE IF k = 1 THEN DecDouble(x)
    ELSE DecTimesTwoTo(DecTimesTwoTo(x, k \div 2), k - (k \div 2))

RECURSIVE DecTimesFiveTo(_, _)
DecTimesFiveTo(x, k) ==
    IF k <= 0 \/ x = <<0>> THEN x
    ELSE IF k = 1 THEN DecHalf(DecTimesTenTo(x, 1))
    ELSE DecTimesFiveTo(DecTimesFiveTo(x, k \div 2), k - (k \div 2))

RECURSIVE DecHalfTo(_, _)
DecHalfTo(x, k) ==
    IF k <= 0 \/ x = <<0>> THEN x
    ELSE IF k = 1 THEN DecHalf(x)
    ELSE DecHalfTo(DecHalfTo(x, k \div 2), k - (k \div 2))

\* 10^j - r for a number 0 < r < 10^j written with j digits
DecComplement(r) ==
    LET nz == {i \in 1..Len(r) : r[i] # 0}
        z == CHOOSE i \in nz : \A j \in nz : j <= i
    IN  DecNorm([i \in 1..Len(r) |->
                    IF i < z THEN 9 - r[i] ELSE IF i = z THEN 10 - r[i] ELSE 0])

\* the digits of a numeral as numbers, and back
DecOfChars(cs) == [i \in 1..Len(cs) |-> DigitValue(cs[i])]
DecToChars(x) == [i \in 1..Len(x) |-> Digits[x[i] + 1]]

----------------------------------------------------------------------------
(* JavaScript numbers: IEEE 754 doubles.  A finite double that is not    *)
(* negative is m * 2^e with m < 2^53; NaN is kept apart.                 *)

Two52 == DecTimesTwoTo(<<1>>, 52)
Two53 == DecTimesTwoTo(<<1>>, 53)
Two54 == DecTimesTwoTo(<<1>>, 54)
Two70 == DecTimesTwoTo(<<1>>, 70)

DoubleZero == [nan |-> FALSE, m |-> <<0>>, e |-> 0]
DoubleNaN == [nan |-> TRUE, m |-> <<0>>, e |-> 0]

\* the double nearest to (q + a fraction) * 2^e, ties to the even mantissa;
\* sticky says the fraction is not zero; a q below 2^53 comes without fraction
RECURSIVE RoundToDouble(_, _, _)
RoundToDouble(q, sticky, e) ==
    IF DecLeq(Two70, q)
    THEN LET h == DecHalfTo(q, 16)
         IN  RoundToDouble(h, sticky \/ DecTimesTwoTo(h, 16) # q, e + 16)
    ELSE IF DecLeq(Two54, q)
    THEN RoundToDouble(DecHalf(q), sticky \/ DecIsOdd(q), e + 1)
    ELSE IF DecLess(q, Two53)
    THEN [nan |-> FALSE, m |-> q, e |-> e]
    ELSE LET m0 == DecHalf(q)
             up == DecIsOdd(q) /\ (sticky \/ DecIsOdd(m0))
             m1 == IF up THEN DecSucc(m0) ELSE m0
         IN  IF m1 = Two53
             THEN [nan |-> FALSE, m |-> Two52, e |-> e + 2]
             ELSE [nan |-> FALSE, m |-> m1, e |-> e + 1]

\* q doubled until it is at least bound, and how often it was doubled
RECURSIVE DoubledUpTo(_, _, _)
DoubledUpTo(q, j, bound) ==
    IF DecLess(DecTimesTwoTo(q, 16), bound)
    THEN DoubledUpTo(DecTimesTwoTo(q, 16), j + 16, bound)
    ELSE IF DecLess(q, bound) THEN DoubledUpTo(DecDouble(q), j + 1, bound)
    ELSE [q |-> q, j |-> j]

\* parseFloat(s) for a string of digits with at most one point in front of
\* which, or after which, there are digits; what follows the numeral is
\* ignored, and a string that starts with no numeral gives NaN
ParseFloat(s) ==
    LET whole == DigitPrefix(s)
        rest == SubSeq(s, Len(whole) + 1, Len(s))
        frac == IF rest # <<>> /\ Head(rest) = "." THEN DigitPrefix(Tail(rest)) ELSE <<>>
        f == Len(frac)
        n == DecNorm(DecOfChars(whole \o frac))
        scaled == DoubledUpTo(n, 0, DecTimesTenTo(Two54, f))
        q == SubSeq(scaled.q, 1, Len(scaled.q) - f)
        sticky == \E i \in (Len(scaled.q) - f + 1)..Len(scaled.q) : scaled.q[i] # 0
    IN  IF whole = <<>> /\ frac = <<>> THEN DoubleNaN
        ELSE IF n = <<0>> THEN DoubleZero
        ELSE RoundToDouble(q, sticky, 0 - scaled.j)

\* x * 10 ** d for a double x and 0 <= d <= 22 (10 ** d is then exact)
DoubleTimesTenTo(x, d) ==
    IF x.nan \/ x.m = <<0>> THEN x
    ELSE RoundToDouble(DecTimesTenTo(x.m, d), FALSE, x.e)

\* the same double with a mantissa of at least 2^52
RECURSIVE DoubleNormal(_)
DoubleNormal(x) ==
    IF DecLess(DecTimesTwoTo(x.m, 16), Two52)
    THEN DoubleNormal([x EXCEPT !.m = DecTimesTwoTo(@, 16), !.e = @ - 16])
    ELSE IF DecLess(x.m, Two52) THEN DoubleNormal([x EXCEPT !.m = DecDouble(@), !.e = @ - 1])
    ELSE x

\* the decimal numeral digits * 10^-scale in the notation of
\* Number.prototype.toString: n is the number of digits before the point
DecimalNotation(digits, scale) ==
    LET nz == {i \in 1..Len(digits) : digits[i] # 0}
        k == CHOOSE i \in nz : \A j \in nz : j <= i
        sig == DecToChars(SubSeq(digits, 1, k))
        n == Len(digits) - scale
        expo == IF n - 1 >= 0 THEN <<"e", "+">> \o NatToDigits(n - 1)
                ELSE <<"e", "-">> \o NatToDigits(1 - n)
    IN  IF k <= n /\ n <= 21 THEN sig \o Zeros(n - k)
        ELSE IF 0 < n /\ n <= 21 THEN SubSeq(sig, 1, n) \o <<".">> \o SubSeq(sig, n + 1, k)
        ELSE IF 0 - 6 < n /\ n <= 0 THEN <<"0", ".">> \o Zeros(0 - n) \o sig
        ELSE IF k = 1 THEN sig \o expo
        ELSE <<sig[1], ".">> \o SubSeq(sig, 2, k) \o expo

\* Number.prototype.toString(): the shortest decimal numeral that reads back
\* as the same double, the closest one when there are several.  With
\* x = m * 2^e and E the exact decimal digits of x * 10^t, a numeral of k
\* digits lies below x by the digits of E after the k-th (E cut after k
\* digits) or above it by their complement (the cut numeral plus one); it
\* reads back as x when it is within half the gap U to the next double, the
\* bound included when m is even
Within(even, a, b) == IF even THEN DecLeq(a, b) ELSE DecLess(a, b)

DigitsAfter(E, k) == SubSeq(E, k + 1, Len(E))

ExactAt(E, k) == \A i \in (k + 1)..Len(E) : E[i] = 0

\* below x the gap is half as wide when m = 2^52 (narrow)
LowOk(E, U, even, narrow, k) ==
    \/ ExactAt(E, k)
    \/ IF narrow THEN Within(even, DecTimesTwoTo(DecNorm(DigitsAfter(E, k)), 2), U)
       ELSE Within(even, DecDouble(DecNorm(DigitsAfter(E, k))), U)

HighOk(E, U, even, k) ==
    ~ExactAt(E, k) /\ Within(even, DecDouble(DecComplement(DigitsAfter(E, k))), U)

ShortestLength(E, U, even, narrow) ==
    CHOOSE i \in 1..Len(E) :
        /\ LowOk(E, U, even, narrow, i) \/ HighOk(E, U, even, i)
        /\ \A j \in 1..(i - 1) : ~LowOk(E, U, even, narrow, j) /\ ~HighOk(E, U, even, j)

UseLow(E, U, even, narrow, k) ==
    \/ ~HighOk(E, U, even, k)
    \/ /\ LowOk(E, U, even, narrow, k)
       /\ \/ DecLess(DecNorm(DigitsAfter(E, k)), DecComplement(DigitsAfter(E, k)))
          \/ /\ DecNorm(DigitsAfter(E, k)) = DecComplement(DigitsAfter(E, k))
             /\ E[k] % 2 = 0

ShortestDigits(E, U, even, narrow, k) ==
    IF UseLow(E, U, even, narrow, k)
    THEN SubSeq(E, 1, k) \o DecZeros(Len(E) - k)
    ELSE DecSucc(SubSeq(E, 1, k)) \o DecZeros(Len(E) - k)

ShortestNumeral(E, U, even, narrow, t) ==
    DecimalNotation(
        ShortestDigits(E, U, even, narrow, ShortestLength(E, U, even, narrow)), t)

\* x is normal; its exact digits and the gap to the next double, times 10^t
NormalToString(x) ==
    IF x.e >= 0
    THEN ShortestNumeral(DecTimesTwoTo(x.m, x.e), DecTimesTwoTo(<<1>>, x.e),
                         ~DecIsOdd(x.m), x.m = Two52, 0)
    ELSE ShortestNumeral(DecTimesFiveTo(x.m, 0 - x.e), DecTimesFiveTo(<<1>>, 0 - x.e),
                         ~DecIsOdd(x.m), x.m = Two52, 0 - x.e)

DoubleToString(d) ==
    IF d.nan THEN <<"N", "a", "N">>
    ELSE IF d.m = <<0>> THEN <<"0">>
    ELSE NormalToString(DoubleNormal(d))

\* (parseFloat(amount) * 10 ** decimals).toString()
FloatBaseUnits(amount, decimals) ==
    DoubleToString(DoubleTimesTenTo(ParseFloat(amount), decimals))

----------------------------------------------------------------------------
(* Program constants *)

DefaultGasLimit == 800000

DefaultGasPriceGwei == 12

MaxPeriod == 120

GweiDecimals == 9

NiiDecimals == 15

----------------------------------------------------------------------------
(* What a function returns: a value, or an exception with its message *)

Return(v) == [ok |-> TRUE, v |-> v, msg |-> ""]
Throw(m) == [ok |-> FALSE, v |-> Undefined, msg |-> m]

\* ethers.utils.parseUnits(s, decimals) for a string s without a sign: the
\* decimal digits of the value in base units, the whole part followed by the
\* fraction filled up to the decimals; a string that is no decimal numeral, or
\* has more fraction digits than decimals, is rejected by the library
ParseUnits(s, decimals) ==
    LET points == {i \in 1..Len(s) : s[i] = "."}
        p == IF points = {} THEN Len(s) + 1 ELSE CHOOSE i \in points : TRUE
        whole == IF p = 1 THEN <<"0">> ELSE SubSeq(s, 1, p - 1)
        fraction == IF p >= Len(s) THEN <<"0">> ELSE SubSeq(s, p + 1, Len(s))
        failed(m) == [ok |-> FALSE, wei |-> <<>>, msg |-> m]
    IN  IF s = <<>> \/ \E i \in 1..Len(s) : ~(IsDigit(s[i]) \/ s[i] = ".")
        THEN failed("invalid decimal value")
        ELSE IF s = <<".">> THEN failed("missing value")
        ELSE IF Cardinality(points) > 1 THEN failed("too many decimal points")
        ELSE IF Len(fraction) > decimals THEN failed("underflow occurred")
        ELSE [ok |-> TRUE, msg |-> "",
              wei |-> StripLeadingZeros(
                        whole \o fraction \o Zeros(decimals - Len(fraction)))]

\* ethers.utils.formatUnits(n, decimals) for a BigNumber n >= 0
FormatUnitsChars(n, decimals) ==
    LET ds == NatToDigits(n)
        padded == Zeros(decimals + 1 - Len(ds)) \o ds
        whole == SubSeq(padded, 1, Len(padded) - decimals)
        frac == StripTrailingZeros(SubSeq(padded, Len(padded) - decimals + 1, Len(padded)))
    IN  whole \o <<".">> \o frac

FormatUnits(n, decimals) == Join(FormatUnitsChars(n, decimals))

validateGasPrice(priceGWei) ==
    LET price == ParseInt(priceGWei)
    IN  IF NumLeq(price, 0)
        THEN Throw("Gas price must be a number higher than 0.")
        ELSE Return(price)

validateGasLimit(gas) ==
    LET gasLimit == ParseInt(gas)
    IN  IF NumLeq(gasLimit, 0)
        THEN Throw("Gas limit must be a number higher than 0.")
        ELSE Return(gasLimit)

validatePeriod(p) ==
    LET period == ParseInt(p)
    IN  IF NumLt(period, 1) \/ NumGt(period, MaxPeriod)
        THEN Throw("Period must be a number from 1 to 120.")
        ELSE Return(period)

validateTimeout(t) ==
    LET timeout == ParseInt(t)
    IN  IF NumLeq(timeout, 0)
        THEN Throw("Timeout must be a number higher than 0.")
        ELSE Return(timeout)

----------------------------------------------------------------------------
(* Confirmation records and receipts *)

JsNull == [t |-> "null"]
JsUndefined == [t |-> "undefined"]

\* the confirmation records the provider answers with (the records of the
\* command tests), by transaction hash
TxHashes == {"tx hash 1", "tx hash 2"}

ConfirmationOf(hash) ==
    IF hash = "tx hash 1"
    THEN [t |-> "record", transactionHash |-> hash, blockNumber |-> 2, gasUsed |-> 123]
    ELSE [t |-> "record", transactionHash |-> hash, blockNumber |-> 3, gasUsed |-> 1234]

\* variant: the link of the receipt leads to the explorer of another network
reduceReceiptOtherExplorer(txReceipt) ==
    IF txReceipt.t # "record" THEN JsNull
    ELSE [t |-> "receipt",
          transactionHash |-> txReceipt.transactionHash,
          blockNumber |-> txReceipt.blockNumber,
          gasUsed |-> Join(NatToDigits(txReceipt.gasUsed)),
          href |-> "https://etherscan.io/tx/" \o txReceipt.transactionHash]

reduceReceipt(txReceipt) ==
    IF txReceipt.t # "record" THEN JsNull
    ELSE [t |-> "receipt",
          transactionHash |-> txReceipt.transactionHash,
          blockNumber |-> txReceipt.blockNumber,
          gasUsed |-> Join(NatToDigits(txReceipt.gasUsed)),
          href |-> "https://ropsten.etherscan.io/tx/" \o txReceipt.transactionHash]

----------------------------------------------------------------------------
(* The state of one invocation *)

\* "pay" is the pay command of src/src/commands/pay.js, "pay (part_000)" the
\* one of src/unnamed/part_000, "payments" the show payments command
Commands == {"nii", "fees", "deposit", "pay", "pay (part_000)", "payments"}

\* the commands that run a workflow of on-chain transactions
Workflows == {"nii", "fees", "deposit"}

\* the values a numeric option or the period is invoked with
ArgValues == {Num(0 - 1), Num(0), Num(1), NaN, Str(<<"f", "o", "o">>)}

\* the message collaborators reject with (the one of the command tests)
ErrorMessages == {"transaction failed"}

\* the message a read of the token balance rejects with
ReadErrorMessages == {"call exception"}

Amounts == 0..MaxAmount

\* the values a block or accrual range option is invoked with
RangeArgValues ==
    {Undefined, Str(<<"3">>), Str(<<"0", "-", "2">>), Str(<<"2", "-", "0">>),
     Str(<<"f", "o", "o">>), Str(<<"1", "-", "x">>), Str(<<"2", "-">>)}

NoOptions == [gasLimit |-> Undefined, gasPrice |-> <<>>]

InitLoc ==
    [period |-> Undefined, gasLimit |-> Undefined, timeout |-> Undefined,
     gasPrice |-> <<>>,
     niiBalance |-> 0, allowance |-> 0, pendingTx |-> "",
     releaseReceipt |-> JsUndefined, approveReceipt |-> JsUndefined,
     completeReceipt |-> JsUndefined,
     caught |-> FALSE, error |-> "",
     range |-> JsUndefined,
     claimableQuery |-> "idle", stagedQuery |-> "idle",
     claimableAmount |-> 0, stagedAmount |-> 0, withdrawableAmount |-> 0,
     decimals |-> 0, amount |-> "",
     response |-> JsUndefined]

NiiArgv ==
    [period : ArgValues, gas : ArgValues, price : ArgValues, timeout : ArgValues,
     blocks : {Undefined}, accruals : {Undefined},
     amount : {Undefined}, currency : {""}]

FeesArgv ==
    [period : {Undefined}, gas : ArgValues, price : ArgValues, timeout : ArgValues,
     blocks : RangeArgValues, accruals : RangeArgValues,
     amount : {Undefined}, currency : {"NII"}]

\* the amounts and the gas prices the deposit command is invoked with
AmountArgValues ==
    {Str(<<"1", ".", "1">>), Str(<<"0", ".", "0", "7">>), Str(<<"f", "o", "o">>),
     Str(<<"0">>)}

PriceArgValues == {Undefined, Num(0), Num(2)}

DepositArgv ==
    [period : {Undefined}, gas : ArgValues, price : PriceArgValues, timeout : {Undefined},
     blocks : {Undefined}, accruals : {Undefined},
     amount : AmountArgValues, currency : {"ETH", "TT1"}]

\* the amounts and the currencies the pay command is invoked with
PayAmountValues ==
    {Str(<<"1", ".", "1">>), Str(<<"0", ".", "0", "7">>), Str(<<"1", "0", "0", "0">>),
     Str(<<"f", "o", "o">>)}

PayArgv ==
    [period : {Undefined}, gas : {Undefined}, price : {Undefined}, timeout : {Undefined},
     blocks : {Undefined}, accruals : {Undefined},
     amount : PayAmountValues, currency : {"ETH", "HBT"}]

\* the decimals of the tokens the API answers with
TokenDecimals == {7, 15, 18}

\* the show payments command takes no arguments
NoArgv ==
    [period : {Undefined}, gas : {Undefined}, price : {Undefined}, timeout : {Undefined},
     blocks : {Undefined}, accruals : {Undefined}, amount : {Undefined}, currency : {""}]

\* config.wallet.address, and the addresses of the wallets of the pending
\* payments: the configured address as it is, in lower case without the
\* prefix and in lower case with it, and the address of another wallet
WalletAddress == <<"0", "x", "0", "A">>

PaymentAddresses ==
    {WalletAddress, <<"0", "a">>, <<"0", "x", "0", "a">>, <<"0", "x", "0", "B">>}

\* the pending payments the API knows, and what getPendingPayments resolves
\* with: an array of at most MaxPayments of them, an object that is no
\* array, a string that is not empty, or null
MaxPayments == 2

PendingPayments ==
    [sender : [wallet : PaymentAddresses], recipient : [wallet : PaymentAddresses]]

PaymentArrays ==
    UNION {[1..n -> PendingPayments] : n \in 0..MaxPayments}

PendingResponses ==
    {[t |-> "array", v |-> a] : a \in PaymentArrays}
        \cup {[t |-> "object", v |-> <<>>], [t |-> "string", v |-> <<>>],
              [t |-> "null", v |-> <<>>]}

Init ==
    /\ cmd \in Commands
    /\ argv \in CASE cmd = "nii" -> NiiArgv
                  [] cmd = "fees" -> FeesArgv
                  [] cmd = "deposit" -> DepositArgv
                  [] cmd = "payments" -> NoArgv
                  [] OTHER -> PayArgv
    /\ pc = "start"
    /\ loc = InitLoc
    /\ provider = [created |-> FALSE, stopUpdate |-> 0]
    /\ calls = <<>>
    /\ spinner = <<>>
    /\ stdout = <<>>
    /\ result = [state |-> "pending", message |-> ""]

\* variant: after the first submission another gas limit is used
OptionsAfterFirst ==
    [gasLimit |-> IF \E i \in DOMAIN calls : calls[i].op = "submit"
                  THEN Num(DefaultGasLimit + 1) ELSE loc.gasLimit,
     gasPrice |-> loc.gasPrice]

Options == [gasLimit |-> loc.gasLimit, gasPrice |-> loc.gasPrice]

\* a call that submits a transaction, a call that waits for its confirmation,
\* a call that reads chain state, and whether it succeeded
SubmitCall(kind, amount, index, ok) ==
    [op |-> "submit", kind |-> kind, ok |-> ok, amount |-> amount, index |-> index,
     options |-> Options, timeout |-> Undefined, hash |-> "", range |-> loc.range]

ConfirmCall(kind, hash, ok) ==
    [op |-> "confirm", kind |-> kind, ok |-> ok, amount |-> "", index |-> Undefined,
     options |-> NoOptions, timeout |-> loc.timeout, hash |-> hash,
     range |-> JsUndefined]

ReadCall(kind, ok) ==
    [op |-> "read", kind |-> kind, ok |-> ok, amount |-> "", index |-> Undefined,
     options |-> NoOptions, timeout |-> Undefined, hash |-> "", range |-> loc.range]

\* the registration of a payment with the API
RegisterCall(amount, ok) ==
    [op |-> "register", kind |-> "payment", ok |-> ok, amount |-> amount,
     index |-> Undefined, options |-> NoOptions, timeout |-> Undefined, hash |-> "",
     range |-> JsUndefined]

SpinStart(step, text) == [op |-> "start", step |-> step, text |-> text]
SpinSucceed(step, text) == [op |-> "succeed", step |-> step, text |-> text]
SpinFail(text) == [op |-> "fail", step |-> "", text |-> text]

Rejected(m) == [state |-> "rejected", message |-> m]
Resolved == [state |-> "resolved", message |-> ""]

----------------------------------------------------------------------------
(* claim nii: the handler of src/src/commands/claim-commands/nii.js *)

\* lines 31-37: the arguments validated in the order of the code; the first
\* validator that throws decides the message
NiiValidation(a) ==
    LET period == validatePeriod(a.period)
        gasLimit == validateGasLimit(OrElse(a.gas, Num(DefaultGasLimit)))
        timeout == validateTimeout(a.timeout)
        gasPriceGWEI == validateGasPrice(OrElse(a.price, Num(DefaultGasPriceGwei)))
        gasPrice == ParseUnits(NumToString(gasPriceGWEI.v), GweiDecimals)
        msg == CASE ~period.ok -> period.msg
                 [] ~gasLimit.ok -> gasLimit.msg
                 [] ~timeout.ok -> timeout.msg
                 [] ~gasPriceGWEI.ok -> gasPriceGWEI.msg
                 [] ~gasPrice.ok -> gasPrice.msg
                 [] OTHER -> ""
    IN  [ok |-> msg = "", msg |-> msg, period |-> period.v, gasLimit |-> gasLimit.v,
         timeout |-> timeout.v, gasPrice |-> gasPrice.wei]

\* variant: the provider is created before the arguments are validated
NiiValidateAfterProvider ==
    /\ cmd = "nii" /\ pc = "start"
    /\ provider' = [provider EXCEPT !.created = TRUE]
    /\ LET v == NiiValidation(argv)
       IN  IF v.ok
           THEN /\ loc' = [loc EXCEPT !.period = v.period, !.gasLimit = v.gasLimit,
                                      !.timeout = v.timeout, !.gasPrice = v.gasPrice]
                /\ pc' = "privateKey"
                /\ UNCHANGED result
           ELSE /\ result' = Rejected(v.msg)
                /\ pc' = "done"
                /\ UNCHANGED loc
    /\ UNCHANGED <<cmd, argv, calls, spinner, stdout>>

NiiValidate ==
    /\ cmd = "nii" /\ pc = "start"
    /\ LET v == NiiValidation(argv)
       IN  IF v.ok
           THEN /\ loc' = [loc EXCEPT !.period = v.period, !.gasLimit = v.gasLimit,
                                      !.timeout = v.timeout, !.gasPrice = v.gasPrice]
                /\ pc' = "providerFrom"
                /\ UNCHANGED result
           ELSE /\ result' = Rejected(v.msg)
                /\ pc' = "done"
                /\ UNCHANGED loc
    /\ UNCHANGED <<cmd, argv, provider, calls, spinner, stdout>>

\* line 40: await nahmii.NahmiiProvider.from(...)
NiiProviderFrom ==
    /\ cmd = "nii" /\ pc = "providerFrom"
    /\ \/ /\ provider' = [provider EXCEPT !.created = TRUE]
          /\ pc' = "privateKey"
          /\ UNCHANGED result
       \/ \E m \in ErrorMessages :
          /\ result' = Rejected(m)
          /\ pc' = "done"
          /\ UNCHANGED provider
    /\ UNCHANGED <<cmd, argv, loc, calls, spinner, stdout>>

\* lines 41-42: await config.privateKey(...), new nahmii.Wallet(...); outside the try
NiiPrivateKey ==
    /\ cmd = "nii" /\ pc = "privateKey"
    /\ \/ /\ pc' = "erc20From"
          /\ UNCHANGED result
       \/ \E m \in ErrorMessages :
          /\ result' = Rejected(m)
          /\ pc' = "done"
    /\ UNCHANGED <<cmd, argv, loc, provider, calls, spinner, stdout>>

\* line 43: await nahmii.Erc20Contract.from('NII', wallet); outside the try
NiiErc20From ==
    /\ cmd = "nii" /\ pc = "erc20From"
    /\ \/ /\ pc' = "openingBalance"
          /\ UNCHANGED result
       \/ \E m \in ErrorMessages :
          /\ result' = Rejected(m)
          /\ pc' = "done"
    /\ UNCHANGED <<cmd, argv, loc, provider, calls, spinner, stdout>>

\* variant: the catch block reports the failure and does not rethrow
NiiCatchNoRethrow(m, made) ==
    /\ calls' = made
    /\ spinner' = Append(spinner, SpinFail(""))
    /\ pc' = "closingBalance"
    /\ UNCHANGED <<cmd, argv, loc, provider, stdout, result>>

\* variant: the catch block writes the receipts it has so far
NiiCatchPartialReport(m, made) ==
    /\ calls' = made
    /\ spinner' = Append(spinner, SpinFail(""))
    /\ loc' = [loc EXCEPT !.caught = TRUE, !.error = "Claiming NII failed: " \o m]
    /\ stdout' = Append(stdout, <<reduceReceipt(loc.releaseReceipt),
                                   reduceReceipt(loc.approveReceipt)>>)
    /\ pc' = "closingBalance"
    /\ UNCHANGED <<cmd, argv, provider, result>>

\* lines 120-124: the catch block, entered with the error err; the finally
\* block follows
NiiCatch(m, made) ==
    /\ calls' = made
    /\ spinner' = Append(spinner, SpinFail(""))
    /\ loc' = [loc EXCEPT !.caught = TRUE, !.error = "Claiming NII failed: " \o m]
    /\ pc' = "closingBalance"
    /\ UNCHANGED <<cmd, argv, provider, stdout, result>>

\* line 50: the opening balance; line 55 starts step 1/8
NiiOpeningBalance ==
    /\ cmd = "nii" /\ pc = "openingBalance"
    /\ \/ \E b \in Amounts :
          /\ loc' = [loc EXCEPT !.niiBalance = b]
          /\ calls' = Append(calls, ReadCall("balanceOf", TRUE))
          /\ spinner' = Append(spinner,
                SpinStart("1/8", "Registering claim for period "
                                    \o Join(NumToString(loc.period))))
          /\ pc' = "release"
          /\ UNCHANGED <<cmd, argv, provider, stdout, result>>
       \/ \E m \in ReadErrorMessages :
          NiiCatch(m, Append(calls, ReadCall("balanceOf", FALSE)))

\* variant: a release that cannot be submitted aborts the workflow
NiiReleaseAborting ==
    /\ cmd = "nii" /\ pc = "release"
    /\ \/ \E h \in TxHashes :
          /\ calls' = Append(calls,
                SubmitCall("release", "", NumMinusOne(loc.period), TRUE))
          /\ loc' = [loc EXCEPT !.pendingTx = h]
          /\ spinner' = spinner \o
                <<SpinSucceed("1/8", "Claim registered for period "
                                        \o Join(NumToString(loc.period))),
                  SpinStart("2/8", "Confirming claim")>>
          /\ pc' = "confirmRelease"
          /\ UNCHANGED <<cmd, argv, provider, stdout, result>>
       \/ \E m \in ErrorMessages :
          /\ calls' = Append(calls,
                SubmitCall("release", "", NumMinusOne(loc.period), FALSE))
          /\ spinner' = Append(spinner, SpinFail(m))
          /\ loc' = [loc EXCEPT !.caught = TRUE, !.error = "Claiming NII failed: " \o m]
          /\ pc' = "closingBalance"
          /\ UNCHANGED <<cmd, argv, provider, stdout, result>>

\* lines 56-59 and 63-66: the release transaction is submitted; a rejection is
\* caught by the inner catch, reported, and the handler goes on at line 68
NiiRelease ==
    /\ cmd = "nii" /\ pc = "release"
    /\ \/ \E h \in TxHashes :
          /\ calls' = Append(calls,
                SubmitCall("release", "", NumMinusOne(loc.period), TRUE))
          /\ loc' = [loc EXCEPT !.pendingTx = h]
          /\ spinner' = spinner \o
                <<SpinSucceed("1/8", "Claim registered for period "
                                        \o Join(NumToString(loc.period))),
                  SpinStart("2/8", "Confirming claim")>>
          /\ pc' = "confirmRelease"
       \/ \E m \in ErrorMessages :
          /\ calls' = Append(calls,
                SubmitCall("release", "", NumMinusOne(loc.period), FALSE))
          /\ spinner' = Append(spinner, SpinFail(m))
          /\ pc' = "depositBalance"
          /\ UNCHANGED loc
    /\ UNCHANGED <<cmd, argv, provider, stdout, result>>

\* variant: a release that is not confirmed is not reported
NiiConfirmReleaseSilent ==
    /\ cmd = "nii" /\ pc = "confirmRelease"
    /\ \/ /\ calls' = Append(calls, ConfirmCall("release", loc.pendingTx, TRUE))
          /\ loc' = [loc EXCEPT !.releaseReceipt = ConfirmationOf(loc.pendingTx)]
          /\ spinner' = Append(spinner, SpinSucceed("2/8", "Claim confirmed"))
       \/ /\ calls' = Append(calls, ConfirmCall("release", loc.pendingTx, FALSE))
          /\ UNCHANGED <<loc, spinner>>
    /\ pc' = "depositBalance"
    /\ UNCHANGED <<cmd, argv, provider, stdout, result>>

\* lines 60-61 and 63-66: the confirmation of the release transaction
NiiConfirmRelease ==
    /\ cmd = "nii" /\ pc = "confirmRelease"
    /\ \/ /\ calls' = Append(calls, ConfirmCall("release", loc.pendingTx, TRUE))
          /\ loc' = [loc EXCEPT !.releaseReceipt = ConfirmationOf(loc.pendingTx)]
          /\ spinner' = Append(spinner, SpinSucceed("2/8", "Claim confirmed"))
       \/ \E m \in ErrorMessages :
          /\ calls' = Append(calls, ConfirmCall("release", loc.pendingTx, FALSE))
          /\ spinner' = Append(spinner, SpinFail(m))
          /\ UNCHANGED loc
    /\ pc' = "depositBalance"
    /\ UNCHANGED <<cmd, argv, provider, stdout, result>>

\* lines 68-71: the balance to deposit is read again
NiiDepositBalance ==
    /\ cmd = "nii" /\ pc = "depositBalance"
    /\ \/ \E b \in Amounts :
          /\ loc' = [loc EXCEPT !.niiBalance = b]
          /\ calls' = Append(calls, ReadCall("balanceOf", TRUE))
          /\ spinner' = Append(spinner, SpinStart("", "Checking allowance"))
          /\ pc' = "allowance"
          /\ UNCHANGED <<cmd, argv, provider, stdout, result>>
       \/ \E m \in ReadErrorMessages :
          NiiCatch(m, Append(calls, ReadCall("balanceOf", FALSE)))

\* variant: an allowance that is too small is never cleared first
NiiStepAfterAllowanceNoClear(allowance, niiBalance) ==
    IF allowance < niiBalance THEN "approve" ELSE "complete"

\* variant: an allowance that equals the balance is not enough
NiiStepAfterAllowanceNotEqual(allowance, niiBalance) ==
    IF allowance <= niiBalance
    THEN IF allowance > 0 THEN "clear" ELSE "approve"
    ELSE "complete"

\* lines 77, 78, 87 and 100: the step that follows the allowance check
NiiStepAfterAllowance(allowance, niiBalance) ==
    IF allowance < niiBalance
    THEN IF allowance > 0 THEN "clear" ELSE "approve"
    ELSE "complete"

\* variant: the progress reporter is told nothing of the steps left out
NiiSkipNotesSilent(step, niiBalance) ==
    CASE step = "clear" ->
            <<SpinStart("3/8", "Clearing allowance")>>
      [] step = "approve" ->
            <<SpinStart("5/8", "Approving transfer of "
                                  \o Join(NatToDigits(niiBalance)) \o " NII")>>
      [] OTHER ->
            <<SpinStart("7/8", "Registering nahmii deposit")>>

\* lines 79, 88-92 and 101-107: what the progress reporter is told on the way
\* to that step
NiiSkipNotes(step, niiBalance) ==
    CASE step = "clear" ->
            <<SpinStart("3/8", "Clearing allowance")>>
      [] step = "approve" ->
            <<SpinSucceed("3/8", "Skipped"), SpinSucceed("4/8", "Skipped"),
              SpinStart("5/8", "Approving transfer of "
                                  \o Join(NatToDigits(niiBalance)) \o " NII")>>
      [] OTHER ->
            <<SpinSucceed("3/8", "Skipped"), SpinSucceed("4/8", "Skipped"),
              SpinSucceed("5/8", "Skipped"), SpinSucceed("6/8", "Skipped"),
              SpinStart("7/8", "Registering nahmii deposit")>>

\* lines 72-78: the allowance is read and the steps to run are decided
NiiAllowance ==
    /\ cmd = "nii" /\ pc = "allowance"
    /\ \/ \E a \in Amounts :
          LET step == NiiStepAfterAllowance(a, loc.niiBalance)
          IN  /\ loc' = [loc EXCEPT !.allowance = a, !.approveReceipt = JsNull]
              /\ calls' = Append(calls, ReadCall("getDepositAllowance", TRUE))
              /\ spinner' = spinner \o
                    <<SpinSucceed("", "Allowance retrieved: " \o Join(NatToDigits(a)))>>
                    \o NiiSkipNotes(step, loc.niiBalance)
              /\ pc' = step
              /\ UNCHANGED <<cmd, argv, provider, stdout, result>>
       \/ \E m \in ErrorMessages :
          NiiCatch(m, Append(calls, ReadCall("getDepositAllowance", FALSE)))

\* lines 80-83: the allowance is set to 0
NiiClear ==
    /\ cmd = "nii" /\ pc = "clear"
    /\ \/ \E h \in TxHashes :
          /\ calls' = Append(calls, SubmitCall("clear", "0", Undefined, TRUE))
          /\ loc' = [loc EXCEPT !.pendingTx = h]
          /\ spinner' = spinner \o
                <<SpinSucceed("3/8", "Allowance cleared"),
                  SpinStart("4/8", "Confirming allowance is cleared")>>
          /\ pc' = "confirmClear"
          /\ UNCHANGED <<cmd, argv, provider, stdout, result>>
       \/ \E m \in ErrorMessages :
          NiiCatch(m, Append(calls, SubmitCall("clear", "0", Undefined, FALSE)))

\* variant: the approval goes on when the clearing was not confirmed
NiiConfirmClearIgnoringFailure ==
    /\ cmd = "nii" /\ pc = "confirmClear"
    /\ \E ok \in BOOLEAN :
          calls' = Append(calls, ConfirmCall("clear", loc.pendingTx, ok))
    /\ spinner' = spinner \o
          <<SpinSucceed("4/8", "Allowance confirmed cleared"),
            SpinStart("5/8", "Approving transfer of "
                                \o Join(NatToDigits(loc.niiBalance)) \o " NII")>>
    /\ pc' = "approve"
    /\ UNCHANGED <<cmd, argv, loc, provider, stdout, result>>

\* lines 84-92: the confirmation of the clearing; its record is not kept
NiiConfirmClear ==
    /\ cmd = "nii" /\ pc = "confirmClear"
    /\ \/ /\ calls' = Append(calls, ConfirmCall("clear", loc.pendingTx, TRUE))
          /\ spinner' = spinner \o
                <<SpinSucceed("4/8", "Allowance confirmed cleared"),
                  SpinStart("5/8", "Approving transfer of "
                                      \o Join(NatToDigits(loc.niiBalance)) \o " NII")>>
          /\ pc' = "approve"
          /\ UNCHANGED <<cmd, argv, loc, provider, stdout, result>>
       \/ \E m \in ErrorMessages :
          NiiCatch(m, Append(calls, ConfirmCall("clear", loc.pendingTx, FALSE)))

\* variant: the approval is of the balance as a number of base units
NiiApproveBaseUnits ==
    /\ cmd = "nii" /\ pc = "approve"
    /\ LET amount == Join(NatToDigits(loc.niiBalance))
       IN  \/ \E h \in TxHashes :
              /\ calls' = Append(calls, SubmitCall("approve", amount, Undefined, TRUE))
              /\ loc' = [loc EXCEPT !.pendingTx = h]
              /\ spinner' = spinner \o
                    <<SpinSucceed("5/8", "Transfer approval registered"),
                      SpinStart("6/8", "Confirming transfer approval")>>
              /\ pc' = "confirmApprove"
              /\ UNCHANGED <<cmd, argv, provider, stdout, result>>
           \/ \E m \in ErrorMessages :
              NiiCatch(m, Append(calls, SubmitCall("approve", amount, Undefined, FALSE)))

\* lines 93-96: the transfer of the balance is approved
NiiApprove ==
    /\ cmd = "nii" /\ pc = "approve"
    /\ LET amount == FormatUnits(loc.niiBalance, NiiDecimals)
       IN  \/ \E h \in TxHashes :
              /\ calls' = Append(calls, SubmitCall("approve", amount, Undefined, TRUE))
              /\ loc' = [loc EXCEPT !.pendingTx = h]
              /\ spinner' = spinner \o
                    <<SpinSucceed("5/8", "Transfer approval registered"),
                      SpinStart("6/8", "Confirming transfer approval")>>
              /\ pc' = "confirmApprove"
              /\ UNCHANGED <<cmd, argv, provider, stdout, result>>
           \/ \E m \in ErrorMessages :
              NiiCatch(m, Append(calls, SubmitCall("approve", amount, Undefined, FALSE)))

\* lines 97-98 and 107: the confirmation of the approval
NiiConfirmApprove ==
    /\ cmd = "nii" /\ pc = "confirmApprove"
    /\ \/ /\ calls' = Append(calls, ConfirmCall("approve", loc.pendingTx, TRUE))
          /\ loc' = [loc EXCEPT !.approveReceipt = ConfirmationOf(loc.pendingTx)]
          /\ spinner' = spinner \o
                <<SpinSucceed("6/8", "Transfer approval confirmed"),
                  SpinStart("7/8", "Registering nahmii deposit")>>
          /\ pc' = "complete"
          /\ UNCHANGED <<cmd, argv, provider, stdout, result>>
       \/ \E m \in ErrorMessages :
          NiiCatch(m, Append(calls, ConfirmCall("approve", loc.pendingTx, FALSE)))

\* lines 108-111: the deposit is registered
NiiComplete ==
    /\ cmd = "nii" /\ pc = "complete"
    /\ LET amount == FormatUnits(loc.niiBalance, NiiDecimals)
       IN  \/ \E h \in TxHashes :
              /\ calls' = Append(calls, SubmitCall("complete", amount, Undefined, TRUE))
              /\ loc' = [loc EXCEPT !.pendingTx = h]
              /\ spinner' = spinner \o
                    <<SpinSucceed("7/8", "nahmii deposit registered"),
                      SpinStart("8/8", "Confirming nahmii deposit")>>
              /\ pc' = "confirmComplete"
              /\ UNCHANGED <<cmd, argv, provider, stdout, result>>
           \/ \E m \in ErrorMessages :
              NiiCatch(m, Append(calls, SubmitCall("complete", amount, Undefined, FALSE)))

\* variant: the report leaves out the steps that have no confirmation record
NiiReportWithoutNulls(releaseReceipt, approveReceipt, completeReceipt) ==
    SelectSeq(<<reduceReceipt(releaseReceipt), reduceReceipt(approveReceipt),
                reduceReceipt(completeReceipt)>>,
              LAMBDA r : r # JsNull)

\* variant: the report lists the approval before the release
NiiReportApproveFirst(releaseReceipt, approveReceipt, completeReceipt) ==
    <<reduceReceipt(approveReceipt), reduceReceipt(releaseReceipt),
      reduceReceipt(completeReceipt)>>

\* line 117: the report
NiiReport(releaseReceipt, approveReceipt, completeReceipt) ==
    <<reduceReceipt(releaseReceipt), reduceReceipt(approveReceipt),
      reduceReceipt(completeReceipt)>>

\* lines 112-118: the confirmation of the deposit, then the report is written
NiiConfirmComplete ==
    /\ cmd = "nii" /\ pc = "confirmComplete"
    /\ \/ LET completeReceipt == ConfirmationOf(loc.pendingTx)
          IN  /\ calls' = Append(calls, ConfirmCall("complete", loc.pendingTx, TRUE))
              /\ loc' = [loc EXCEPT !.completeReceipt = completeReceipt]
              /\ spinner' = Append(spinner,
                    SpinSucceed("8/8", "nahmii deposit of "
                        \o Join(NatToDigits(loc.niiBalance)) \o " NII confirmed"))
              /\ stdout' = Append(stdout,
                    NiiReport(loc.releaseReceipt, loc.approveReceipt, completeReceipt))
              /\ pc' = "closingBalance"
              /\ UNCHANGED <<cmd, argv, provider, result>>
       \/ \E m \in ErrorMessages :
          NiiCatch(m, Append(calls, ConfirmCall("complete", loc.pendingTx, FALSE)))

\* lines 125-130: the finally block reads the balance and then stops the
\* provider; when the read rejects, its error replaces the outcome of the try
\* and line 129 is not reached
NiiClosingBalance ==
    /\ cmd = "nii" /\ pc = "closingBalance"
    /\ \/ /\ calls' = Append(calls, ReadCall("balanceOf", TRUE))
          /\ provider' = [provider EXCEPT !.stopUpdate = @ + 1]
          /\ result' = IF loc.caught THEN Rejected(loc.error) ELSE Resolved
       \/ \E m \in ReadErrorMessages :
          /\ calls' = Append(calls, ReadCall("balanceOf", FALSE))
          /\ result' = Rejected(m)
          /\ UNCHANGED provider
    /\ pc' = "done"
    /\ UNCHANGED <<cmd, argv, loc, spinner, stdout>>

NiiNext ==
    \/ NiiValidate
    \/ NiiProviderFrom
    \/ NiiPrivateKey
    \/ NiiErc20From
    \/ NiiOpeningBalance
    \/ NiiRelease
    \/ NiiConfirmRelease
    \/ NiiDepositBalance
    \/ NiiAllowance
    \/ NiiClear
    \/ NiiConfirmClear
    \/ NiiApprove
    \/ NiiConfirmApprove
    \/ NiiComplete
    \/ NiiConfirmComplete
    \/ NiiClosingBalance

----------------------------------------------------------------------------
(* claim fees: the command module in src/src/commands/pay.spec.js, lines 185-359 *)

\* String.prototype.split for a one-character separator
RECURSIVE Split(_, _)
Split(s, sep) ==
    IF \A i \in 1..Len(s) : s[i] # sep THEN <<s>>
    ELSE LET i == CHOOSE k \in 1..Len(s) :
                    s[k] = sep /\ \A j \in 1..(k - 1) : s[j] # sep
         IN  <<SubSeq(s, 1, i - 1)>> \o Split(SubSeq(s, i + 1, Len(s)), sep)

validateBlock(index, name) ==
    LET i == ParseInt(index)
    IN  IF i.t = "nan" \/ NumLt(i, 0)
        THEN Throw(name \o " block number must be a number higher than 0.")
        ELSE Return(i)

validateAccrual(index, name) ==
    LET i == ParseInt(index)
    IN  IF i.t = "nan" \/ NumLt(i, 0)
        THEN Throw(name \o " accrual index must be a number higher than 0.")
        ELSE Return(i)

\* lines 231-247: the range, parsed from --blocks when it is given, else from
\* --accruals, else left undefined
FeesRange(a) ==
    LET useBlocks == IsTruthy(a.blocks)
        text == IF useBlocks THEN a.blocks.s ELSE a.accruals.s
        pieces == Split(text, "-")
        firstPiece == Str(pieces[1])
        lastPiece == IF Len(pieces) >= 2 THEN Str(pieces[2]) ELSE Undefined
        first == IF useBlocks THEN validateBlock(firstPiece, "First")
                 ELSE validateAccrual(firstPiece, "First")
        last == IF useBlocks THEN validateBlock(OrElse(lastPiece, firstPiece), "Last")
                ELSE validateAccrual(OrElse(lastPiece, firstPiece), "Last")
    IN  IF ~IsTruthy(a.blocks) /\ ~IsTruthy(a.accruals)
        THEN [ok |-> TRUE, msg |-> "", range |-> JsUndefined]
        ELSE IF ~first.ok THEN [ok |-> FALSE, msg |-> first.msg, range |-> JsUndefined]
        ELSE IF ~last.ok THEN [ok |-> FALSE, msg |-> last.msg, range |-> JsUndefined]
        ELSE [ok |-> TRUE, msg |-> "",
              range |-> [t |-> "range",
                         type |-> IF useBlocks THEN "block" ELSE "accrual",
                         first |-> first.v.n, last |-> last.v.n]]

\* lines 231-254: the range and the gas policy validated in the order of the code
FeesValidation(a) ==
    LET range == FeesRange(a)
        gasLimit == validateGasLimit(a.gas)
        timeout == validateTimeout(a.timeout)
        gasPriceGWEI == validateGasPrice(a.price)
        gasPrice == ParseUnits(NumToString(gasPriceGWEI.v), GweiDecimals)
        msg == CASE ~range.ok -> range.msg
                 [] ~gasLimit.ok -> gasLimit.msg
                 [] ~timeout.ok -> timeout.msg
                 [] ~gasPriceGWEI.ok -> gasPriceGWEI.msg
                 [] ~gasPrice.ok -> gasPrice.msg
                 [] OTHER -> ""
    IN  [ok |-> msg = "", msg |-> msg, range |-> range.range, gasLimit |-> gasLimit.v,
         timeout |-> timeout.v, gasPrice |-> gasPrice.wei]

\* variant: the two range options are not declared as conflicting
FeesNoConflicts(a) == FALSE

\* line 228: yargs.conflicts('accruals', 'blocks'); the argument parser fails
\* when both options are set, and the handler is not invoked
FeesConflicts(a) == a.accruals.t # "undefined" /\ a.blocks.t # "undefined"

\* the invocation of the command: the conflict check of the argument parser,
\* then the validation of the handler
FeesInvocation(a) ==
    IF FeesConflicts(a)
    THEN [ok |-> FALSE, msg |-> "Arguments accruals and blocks are mutually exclusive",
          range |-> JsUndefined, gasLimit |-> Undefined, timeout |-> Undefined,
          gasPrice |-> <<>>]
    ELSE FeesValidation(a)

FeesValidate ==
    /\ cmd = "fees" /\ pc = "start"
    /\ LET v == FeesInvocation(argv)
       IN  IF v.ok
           THEN /\ loc' = [loc EXCEPT !.range = v.range, !.gasLimit = v.gasLimit,
                                      !.timeout = v.timeout, !.gasPrice = v.gasPrice]
                /\ pc' = "providerFrom"
                /\ UNCHANGED result
           ELSE /\ result' = Rejected(v.msg)
                /\ pc' = "done"
                /\ UNCHANGED loc
    /\ UNCHANGED <<cmd, argv, provider, calls, spinner, stdout>>

\* line 257: await nahmii.NahmiiProvider.from(...)
FeesProviderFrom ==
    /\ cmd = "fees" /\ pc = "providerFrom"
    /\ \/ /\ provider' = [provider EXCEPT !.created = TRUE]
          /\ pc' = "privateKey"
          /\ UNCHANGED result
       \/ \E m \in ErrorMessages :
          /\ result' = Rejected(m)
          /\ pc' = "done"
          /\ UNCHANGED provider
    /\ UNCHANGED <<cmd, argv, loc, calls, spinner, stdout>>

\* lines 258-259: await config.privateKey(...), new nahmii.Wallet(...); outside the try
FeesPrivateKey ==
    /\ cmd = "fees" /\ pc = "privateKey"
    /\ \/ /\ pc' = "getNetwork"
          /\ UNCHANGED result
       \/ \E m \in ErrorMessages :
          /\ result' = Rejected(m)
          /\ pc' = "done"
    /\ UNCHANGED <<cmd, argv, loc, provider, calls, spinner, stdout>>

\* lines 315-322: the catch block, entered with the error err, and the finally
\* block, which has no await
FeesCatch(m, made) ==
    /\ calls' = made
    /\ spinner' = Append(spinner, SpinFail(""))
    /\ loc' = [loc EXCEPT !.caught = TRUE]
    /\ result' = Rejected("Claiming of fees failed: " \o m)
    /\ provider' = [provider EXCEPT !.stopUpdate = @ + 1]
    /\ pc' = "done"
    /\ UNCHANGED <<cmd, argv, stdout>>

\* lines 261-273: await provider.getNetwork(), outside the try; then the try is
\* entered and range.type is read, which throws when no range was given
FeesGetNetwork ==
    /\ cmd = "fees" /\ pc = "getNetwork"
    /\ \/ /\ loc.range.t = "range"
          /\ pc' = "getTokenInfo"
          /\ UNCHANGED <<cmd, argv, loc, provider, calls, spinner, stdout, result>>
       \/ /\ loc.range.t # "range"
          /\ FeesCatch("Cannot read property 'type' of undefined", calls)
       \/ \E m \in ErrorMessages :
          /\ result' = Rejected(m)
          /\ pc' = "done"
          /\ UNCHANGED <<cmd, argv, loc, provider, calls, spinner, stdout>>

\* lines 275-282: the token is looked up, then both queries are started
FeesGetTokenInfo ==
    /\ cmd = "fees" /\ pc = "getTokenInfo"
    /\ \/ /\ loc' = [loc EXCEPT !.claimableQuery = "pending", !.stagedQuery = "pending"]
          /\ spinner' = Append(spinner, SpinStart("", "Obtaining claimable amount"))
          /\ pc' = "queries"
          /\ UNCHANGED <<cmd, argv, provider, calls, stdout, result>>
       \/ \E m \in ErrorMessages : FeesCatch(m, calls)

\* lines 283-299: what runs once Promise.all has both amounts
FeesAfterQueries(claimableAmount, stagedAmount) ==
    /\ spinner' = spinner
          \o <<SpinSucceed("", "Claimable amount is " \o Join(NatToDigits(claimableAmount)))>>
          \o (IF 0 < stagedAmount
              THEN <<SpinSucceed("", "Previously claimed (and not withdrawn) amount is "
                                        \o Join(NatToDigits(stagedAmount)))>>
              ELSE <<>>)
          \o (IF 0 < claimableAmount
              THEN <<SpinStart("", "Claiming " \o Join(NatToDigits(claimableAmount)))>>
              ELSE <<SpinSucceed("", "Nothing to claim"),
                     SpinStart("", "Obtaining withdrawable amount")>>)
    /\ pc' = IF 0 < claimableAmount THEN "claim" ELSE "withdrawable"

\* variant: the decision is taken as soon as the claimable amount arrives
FeesClaimableDoneNotWaiting ==
    /\ cmd = "fees" /\ pc = "queries" /\ loc.claimableQuery = "pending"
    /\ \/ \E a \in Amounts :
          /\ calls' = Append(calls, ReadCall("claimableFees", TRUE))
          /\ loc' = [loc EXCEPT !.claimableQuery = "done", !.claimableAmount = a]
          /\ FeesAfterQueries(a, loc.stagedAmount)
          /\ UNCHANGED <<cmd, argv, provider, stdout, result>>
       \/ \E m \in ErrorMessages :
          FeesCatch(m, Append(calls, ReadCall("claimableFees", FALSE)))

\* line 280: the claimable amount arrives, or its query rejects and with it
\* Promise.all
FeesClaimableDone ==
    /\ cmd = "fees" /\ pc = "queries" /\ loc.claimableQuery = "pending"
    /\ \/ \E a \in Amounts :
          /\ calls' = Append(calls, ReadCall("claimableFees", TRUE))
          /\ loc' = [loc EXCEPT !.claimableQuery = "done", !.claimableAmount = a]
          /\ IF loc.stagedQuery = "done"
             THEN FeesAfterQueries(a, loc.stagedAmount)
             ELSE UNCHANGED <<spinner, pc>>
          /\ UNCHANGED <<cmd, argv, provider, stdout, result>>
       \/ \E m \in ErrorMessages :
          FeesCatch(m, Append(calls, ReadCall("claimableFees", FALSE)))

\* line 281: the staged amount arrives, or its query rejects and with it
\* Promise.all
FeesStagedDone ==
    /\ cmd = "fees" /\ pc = "queries" /\ loc.stagedQuery = "pending"
    /\ \/ \E a \in Amounts :
          /\ calls' = Append(calls, ReadCall("withdrawableFees", TRUE))
          /\ loc' = [loc EXCEPT !.stagedQuery = "done", !.stagedAmount = a]
          /\ IF loc.claimableQuery = "done"
             THEN FeesAfterQueries(loc.claimableAmount, a)
             ELSE UNCHANGED <<spinner, pc>>
          /\ UNCHANGED <<cmd, argv, provider, stdout, result>>
       \/ \E m \in ErrorMessages :
          FeesCatch(m, Append(calls, ReadCall("withdrawableFees", FALSE)))

\* line 290: the claim transaction is submitted
FeesClaim ==
    /\ cmd = "fees" /\ pc = "claim"
    /\ \/ \E h \in TxHashes :
          /\ calls' = Append(calls, SubmitCall("claim", "", Undefined, TRUE))
          /\ loc' = [loc EXCEPT !.pendingTx = h]
          /\ pc' = "confirmClaim"
          /\ UNCHANGED <<cmd, argv, provider, spinner, stdout, result>>
       \/ \E m \in ErrorMessages :
          FeesCatch(m, Append(calls, SubmitCall("claim", "", Undefined, FALSE)))

\* lines 292-299: the confirmation of the claim
FeesConfirmClaim ==
    /\ cmd = "fees" /\ pc = "confirmClaim"
    /\ \/ /\ calls' = Append(calls, ConfirmCall("claim", loc.pendingTx, TRUE))
          /\ spinner' = spinner \o
                <<SpinSucceed("", "Claim of " \o Join(NatToDigits(loc.claimableAmount))
                                     \o " confirmed"),
                  SpinStart("", "Obtaining withdrawable amount")>>
          /\ pc' = "withdrawable"
          /\ UNCHANGED <<cmd, argv, loc, provider, stdout, result>>
       \/ \E m \in ErrorMessages :
          FeesCatch(m, Append(calls, ConfirmCall("claim", loc.pendingTx, FALSE)))

\* lines 300-304 and 311-313, 320-322: the withdrawable amount is read again
FeesWithdrawable ==
    /\ cmd = "fees" /\ pc = "withdrawable"
    /\ \/ \E a \in Amounts :
          /\ calls' = Append(calls, ReadCall("withdrawableFees", TRUE))
          /\ loc' = [loc EXCEPT !.withdrawableAmount = a]
          /\ IF 0 < a
             THEN /\ spinner' = spinner \o
                        <<SpinSucceed("", "Withdrawable amount is " \o Join(NatToDigits(a))),
                          SpinStart("", "Withdrawing " \o Join(NatToDigits(a)))>>
                  /\ pc' = "withdraw"
                  /\ UNCHANGED <<provider, result>>
             ELSE /\ spinner' = spinner \o
                        <<SpinSucceed("", "Withdrawable amount is " \o Join(NatToDigits(a))),
                          SpinSucceed("", "Nothing to withdraw")>>
                  /\ provider' = [provider EXCEPT !.stopUpdate = @ + 1]
                  /\ result' = Resolved
                  /\ pc' = "done"
          /\ UNCHANGED <<cmd, argv, stdout>>
       \/ \E m \in ErrorMessages :
          FeesCatch(m, Append(calls, ReadCall("withdrawableFees", FALSE)))

\* variant: the amount staged before the claim is withdrawn
FeesWithdrawStaged ==
    /\ cmd = "fees" /\ pc = "withdraw"
    /\ LET amount == Join(NatToDigits(loc.stagedAmount))
       IN  \/ \E h \in TxHashes :
              /\ calls' = Append(calls, SubmitCall("withdraw", amount, Undefined, TRUE))
              /\ loc' = [loc EXCEPT !.pendingTx = h]
              /\ pc' = "confirmWithdraw"
              /\ UNCHANGED <<cmd, argv, provider, spinner, stdout, result>>
           \/ \E m \in ErrorMessages :
              FeesCatch(m, Append(calls, SubmitCall("withdraw", amount, Undefined, FALSE)))

\* lines 305-306: the withdrawal is submitted
FeesWithdraw ==
    /\ cmd = "fees" /\ pc = "withdraw"
    /\ LET amount == Join(NatToDigits(loc.withdrawableAmount))
       IN  \/ \E h \in TxHashes :
              /\ calls' = Append(calls, SubmitCall("withdraw", amount, Undefined, TRUE))
              /\ loc' = [loc EXCEPT !.pendingTx = h]
              /\ pc' = "confirmWithdraw"
              /\ UNCHANGED <<cmd, argv, provider, spinner, stdout, result>>
           \/ \E m \in ErrorMessages :
              FeesCatch(m, Append(calls, SubmitCall("withdraw", amount, Undefined, FALSE)))

\* lines 308-309 and 320-322: the confirmation of the withdrawal, then the
\* finally block
FeesConfirmWithdraw ==
    /\ cmd = "fees" /\ pc = "confirmWithdraw"
    /\ \/ /\ calls' = Append(calls, ConfirmCall("withdraw", loc.pendingTx, TRUE))
          /\ spinner' = Append(spinner,
                SpinSucceed("", "Withdrawal of "
                    \o Join(NatToDigits(loc.withdrawableAmount)) \o " confirmed"))
          /\ provider' = [provider EXCEPT !.stopUpdate = @ + 1]
          /\ result' = Resolved
          /\ pc' = "done"
          /\ UNCHANGED <<cmd, argv, loc, stdout>>
       \/ \E m \in ErrorMessages :
          FeesCatch(m, Append(calls, ConfirmCall("withdraw", loc.pendingTx, FALSE)))

FeesNext ==
    \/ FeesValidate
    \/ FeesProviderFrom
    \/ FeesPrivateKey
    \/ FeesGetNetwork
    \/ FeesGetTokenInfo
    \/ FeesClaimableDone
    \/ FeesStagedDone
    \/ FeesClaim
    \/ FeesConfirmClaim
    \/ FeesWithdrawable
    \/ FeesWithdraw
    \/ FeesConfirmWithdraw

----------------------------------------------------------------------------
(* deposit: the command under test in src/src/commands/deposit.spec.js; its  *)
(* module is not among the sources, and is modelled from the specification   *)
(* (sections 4.1, 4.2, 4.5 and 7) and from what the tests expect of it       *)

\* a non-negative decimal numeral: digits, with at most one point among them
IsDecimalNumeral(s) ==
    /\ \E i \in 1..Len(s) : IsDigit(s[i])
    /\ \A i \in 1..Len(s) : IsDigit(s[i]) \/ s[i] = "."
    /\ Cardinality({i \in 1..Len(s) : s[i] = "."}) <= 1

\* section 4.1: InvalidAmount for what is no decimal numeral, ZeroAmount for zero
validateAmount(amount) ==
    IF amount.t # "string" \/ ~IsDecimalNumeral(amount.s)
    THEN Throw("Amount must be a number higher than zero.")
    ELSE IF \A i \in 1..Len(amount.s) : amount.s[i] \in {"0", "."}
    THEN Throw("Amount must be higher than zero.")
    ELSE Return(amount)

\* section 4.2: the gas limit and a given gas price are strictly positive
\* integers; without a price the gas price is left to the wallet (null)
validatePositiveInteger(v, msg) ==
    LET n == ParseInt(v)
    IN  IF n.t # "number" \/ n.n <= 0 THEN Throw(msg) ELSE Return(n)

DepositValidation(a) ==
    LET amount == validateAmount(a.amount)
        gasLimit == validatePositiveInteger(a.gas, "Gas limit must be a number higher than 0.")
        noPrice == a.price.t = "undefined"
        gasPriceGWEI == IF noPrice THEN Return(Undefined)
                        ELSE validatePositiveInteger(a.price,
                                "Gas price must be a number higher than 0.")
        gasPrice == IF noPrice THEN [ok |-> TRUE, wei |-> <<>>, msg |-> ""]
                    ELSE ParseUnits(NumToString(gasPriceGWEI.v), GweiDecimals)
        msg == CASE ~amount.ok -> amount.msg
                 [] ~gasLimit.ok -> gasLimit.msg
                 [] ~gasPriceGWEI.ok -> gasPriceGWEI.msg
                 [] ~gasPrice.ok -> gasPrice.msg
                 [] OTHER -> ""
    IN  [ok |-> msg = "", msg |-> msg, gasLimit |-> gasLimit.v, gasPrice |-> gasPrice.wei]

DepositValidate ==
    /\ cmd = "deposit" /\ pc = "start"
    /\ LET v == DepositValidation(argv)
       IN  IF v.ok
           THEN /\ loc' = [loc EXCEPT !.gasLimit = v.gasLimit, !.gasPrice = v.gasPrice]
                /\ pc' = "providerFrom"
                /\ UNCHANGED result
           ELSE /\ result' = Rejected(v.msg)
                /\ pc' = "done"
                /\ UNCHANGED loc
    /\ UNCHANGED <<cmd, argv, provider, calls, spinner, stdout>>

\* the provider is created; from here on the cleanup is guaranteed
DepositProviderFrom ==
    /\ cmd = "deposit" /\ pc = "providerFrom"
    /\ \/ /\ provider' = [provider EXCEPT !.created = TRUE]
          /\ pc' = IF argv.currency = "ETH" THEN "depositEth" ELSE "approve"
          /\ UNCHANGED result
       \/ \E m \in ErrorMessages :
          /\ result' = Rejected(m)
          /\ pc' = "done"
          /\ UNCHANGED provider
    /\ UNCHANGED <<cmd, argv, loc, calls, spinner, stdout>>

\* section 4.5: a failed required step aborts, the error is propagated and
\* the cleanup runs
DepositAbort(m, made) ==
    /\ calls' = made
    /\ loc' = [loc EXCEPT !.caught = TRUE]
    /\ result' = Rejected(m)
    /\ provider' = [provider EXCEPT !.stopUpdate = @ + 1]
    /\ pc' = "done"
    /\ UNCHANGED <<cmd, argv, spinner, stdout>>

\* wallet.depositEth(amount, options)
DepositEth ==
    /\ cmd = "deposit" /\ pc = "depositEth"
    /\ LET amount == Join(argv.amount.s)
       IN  \/ \E h \in TxHashes :
              /\ calls' = Append(calls, SubmitCall("depositEth", amount, Undefined, TRUE))
              /\ loc' = [loc EXCEPT !.pendingTx = h]
              /\ pc' = "confirmDepositEth"
              /\ UNCHANGED <<cmd, argv, provider, spinner, stdout, result>>
           \/ \E m \in ErrorMessages :
              DepositAbort(m, Append(calls, SubmitCall("depositEth", amount, Undefined, FALSE)))

\* the confirmation of the deposit of ETH; the report has its one receipt
DepositConfirmEth ==
    /\ cmd = "deposit" /\ pc = "confirmDepositEth"
    /\ \/ /\ calls' = Append(calls, ConfirmCall("depositEth", loc.pendingTx, TRUE))
          /\ stdout' = Append(stdout, <<reduceReceipt(ConfirmationOf(loc.pendingTx))>>)
          /\ provider' = [provider EXCEPT !.stopUpdate = @ + 1]
          /\ result' = Resolved
          /\ pc' = "done"
          /\ UNCHANGED <<cmd, argv, loc, spinner>>
       \/ \E m \in ErrorMessages :
          DepositAbort(m, Append(calls, ConfirmCall("depositEth", loc.pendingTx, FALSE)))

\* wallet.approveTokenDeposit(amount, currency, options)
DepositApprove ==
    /\ cmd = "deposit" /\ pc = "approve"
    /\ LET amount == Join(argv.amount.s)
       IN  \/ \E h \in TxHashes :
              /\ calls' = Append(calls, SubmitCall("approve", amount, Undefined, TRUE))
              /\ loc' = [loc EXCEPT !.pendingTx = h]
              /\ pc' = "confirmApprove"
              /\ UNCHANGED <<cmd, argv, provider, spinner, stdout, result>>
           \/ \E m \in ErrorMessages :
              DepositAbort(m, Append(calls, SubmitCall("approve", amount, Undefined, FALSE)))

DepositConfirmApprove ==
    /\ cmd = "deposit" /\ pc = "confirmApprove"
    /\ \/ /\ calls' = Append(calls, ConfirmCall("approve", loc.pendingTx, TRUE))
          /\ loc' = [loc EXCEPT !.approveReceipt = ConfirmationOf(loc.pendingTx)]
          /\ pc' = "complete"
          /\ UNCHANGED <<cmd, argv, provider, spinner, stdout, result>>
       \/ \E m \in ErrorMessages :
          DepositAbort(m, Append(calls, ConfirmCall("approve", loc.pendingTx, FALSE)))

\* wallet.completeTokenDeposit(amount, currency, options)
DepositComplete ==
    /\ cmd = "deposit" /\ pc = "complete"
    /\ LET amount == Join(argv.amount.s)
       IN  \/ \E h \in TxHashes :
              /\ calls' = Append(calls, SubmitCall("complete", amount, Undefined, TRUE))
              /\ loc' = [loc EXCEPT !.pendingTx = h]
              /\ pc' = "confirmComplete"
              /\ UNCHANGED <<cmd, argv, provider, spinner, stdout, result>>
           \/ \E m \in ErrorMessages :
              DepositAbort(m, Append(calls, SubmitCall("complete", amount, Undefined, FALSE)))

\* variant: the report lists the receipt of the deposit before the approval's
DepositConfirmCompleteFirst ==
    /\ cmd = "deposit" /\ pc = "confirmComplete"
    /\ \/ /\ calls' = Append(calls, ConfirmCall("complete", loc.pendingTx, TRUE))
          /\ loc' = [loc EXCEPT !.completeReceipt = ConfirmationOf(loc.pendingTx)]
          /\ stdout' = Append(stdout, <<reduceReceipt(ConfirmationOf(loc.pendingTx)),
                                         reduceReceipt(loc.approveReceipt)>>)
          /\ provider' = [provider EXCEPT !.stopUpdate = @ + 1]
          /\ result' = Resolved
          /\ pc' = "done"
          /\ UNCHANGED <<cmd, argv, spinner>>
       \/ \E m \in ErrorMessages :
          DepositAbort(m, Append(calls, ConfirmCall("complete", loc.pendingTx, FALSE)))

\* the confirmation of the token deposit; the report has both receipts
DepositConfirmComplete ==
    /\ cmd = "deposit" /\ pc = "confirmComplete"
    /\ \/ /\ calls' = Append(calls, ConfirmCall("complete", loc.pendingTx, TRUE))
          /\ loc' = [loc EXCEPT !.completeReceipt = ConfirmationOf(loc.pendingTx)]
          /\ stdout' = Append(stdout, <<reduceReceipt(loc.approveReceipt),
                                         reduceReceipt(ConfirmationOf(loc.pendingTx))>>)
          /\ provider' = [provider EXCEPT !.stopUpdate = @ + 1]
          /\ result' = Resolved
          /\ pc' = "done"
          /\ UNCHANGED <<cmd, argv, spinner>>
       \/ \E m \in ErrorMessages :
          DepositAbort(m, Append(calls, ConfirmCall("complete", loc.pendingTx, FALSE)))

DepositNext ==
    \/ DepositValidate
    \/ DepositProviderFrom
    \/ DepositEth
    \/ DepositConfirmEth
    \/ DepositApprove
    \/ DepositConfirmApprove
    \/ DepositComplete
    \/ DepositConfirmComplete

----------------------------------------------------------------------------
(* pay: the handler of src/src/commands/pay.js, and the handler of the pay *)
(* command in src/unnamed/part_000, which differ in how they find the      *)
(* currency and compute the amount                                         *)

\* the catch block: the error is rethrown as 'Payment failed: ...'
PayCatch(m, made) ==
    /\ calls' = made
    /\ loc' = [loc EXCEPT !.caught = TRUE]
    /\ result' = Rejected("Payment failed: " \o m)
    /\ pc' = "done"
    /\ UNCHANGED <<cmd, argv, spinner, stdout>>

\* config.wallet.secret, and the key config.privateKey(secret) derives from it
WalletSecret == "expected secret"

PrivateKeyOf(secret) == "privateKey(" \o secret \o ")"

\* config.privateKey(secret) and payment.sign(privateKey), both synchronous
PrivateKeyCall(ok) ==
    [op |-> "privateKey", kind |-> "config", ok |-> ok, amount |-> "",
     index |-> Undefined, options |-> NoOptions, timeout |-> Undefined, hash |-> "",
     range |-> JsUndefined, secret |-> WalletSecret]

SignCall(key, ok) ==
    [op |-> "sign", kind |-> "payment", ok |-> ok, amount |-> "",
     index |-> Undefined, options |-> NoOptions, timeout |-> Undefined, hash |-> "",
     range |-> JsUndefined, key |-> key]

\* variant: the payment is not signed
PaySignNotSigning(amount, decimals, made) ==
    IF amount.ok
    THEN /\ calls' = Append(made, PrivateKeyCall(TRUE))
         /\ loc' = [loc EXCEPT !.decimals = decimals, !.amount = Join(amount.wei)]
         /\ pc' = "register"
         /\ UNCHANGED <<cmd, argv, spinner, stdout, result>>
    ELSE PayCatch(amount.msg, made)

\* the statements from the amount to payment.sign(privateKey): the amount in
\* base units as the handler computed it (or the error of the computation),
\* then the payment is built, the key is derived from the secret of the
\* configuration and the payment is signed with it; each of the two calls
\* may throw
PaySign(amount, decimals, made) ==
    IF amount.ok
    THEN \/ /\ calls' = made \o <<PrivateKeyCall(TRUE),
                                    SignCall(PrivateKeyOf(WalletSecret), TRUE)>>
            /\ loc' = [loc EXCEPT !.decimals = decimals, !.amount = Join(amount.wei)]
            /\ pc' = "register"
            /\ UNCHANGED <<cmd, argv, spinner, stdout, result>>
         \/ \E m \in ErrorMessages :
                PayCatch(m, Append(made, PrivateKeyCall(FALSE)))
         \/ \E m \in ErrorMessages :
                PayCatch(m, made \o <<PrivateKeyCall(TRUE),
                                      SignCall(PrivateKeyOf(WalletSecret), FALSE)>>)
    ELSE PayCatch(amount.msg, made)

\* pay.js lines 17-29: the provider is made, the currency is found by its
\* symbol (ETH is built in, a token is looked up among the supported tokens),
\* and the amount is parseUnits(argv.amount, decimals).toString()
PayGetCurrency ==
    /\ cmd = "pay" /\ pc = "start"
    /\ provider' = [provider EXCEPT !.created = TRUE]
    /\ IF argv.currency = "ETH"
       THEN PaySign(ParseUnits(argv.amount.s, 18), 18, calls)
       ELSE \/ \E d \in TokenDecimals :
                PaySign(ParseUnits(argv.amount.s, d), d,
                        Append(calls, ReadCall("getSupportedTokens", TRUE)))
            \/ PayCatch("Cannot read property 'decimals' of undefined",
                        Append(calls, ReadCall("getSupportedTokens", TRUE)))
            \/ \E m \in ErrorMessages :
                PayCatch(m, Append(calls, ReadCall("getSupportedTokens", FALSE)))

\* pay.js lines 31-33: the payment is registered and the response written
PayRegister ==
    /\ cmd = "pay" /\ pc = "register"
    /\ \/ /\ calls' = Append(calls, RegisterCall(loc.amount, TRUE))
          /\ stdout' = Append(stdout, [t |-> "response"])
          /\ result' = Resolved
          /\ pc' = "done"
          /\ UNCHANGED <<cmd, argv, loc, spinner>>
       \/ \E m \in ErrorMessages :
          /\ PayCatch(m, Append(calls, RegisterCall(loc.amount, FALSE)))
    /\ UNCHANGED provider

\* part_000 line 19: (parseFloat(argv.amount) * 10 ** decimals).toString()
Part000Amount(amount, decimals) ==
    [ok |-> TRUE, wei |-> FloatBaseUnits(amount, decimals), msg |-> ""]

\* part_000 lines 14-28: the provider is made, the token is looked up among
\* the supported tokens, and the amount is computed in floating point
Part000GetSupportedTokens ==
    /\ cmd = "pay (part_000)" /\ pc = "start"
    /\ provider' = [provider EXCEPT !.created = TRUE]
    /\ \/ \E d \in TokenDecimals :
             PaySign(Part000Amount(argv.amount.s, d), d,
                     Append(calls, ReadCall("getSupportedTokens", TRUE)))
       \/ PayCatch("Cannot read property 'decimals' of undefined",
                   Append(calls, ReadCall("getSupportedTokens", TRUE)))
       \/ \E m \in ErrorMessages :
             PayCatch(m, Append(calls, ReadCall("getSupportedTokens", FALSE)))

\* part_000 lines 30-32: the payment is registered and the response written
Part000Register ==
    /\ cmd = "pay (part_000)" /\ pc = "register"
    /\ \/ /\ calls' = Append(calls, RegisterCall(loc.amount, TRUE))
          /\ stdout' = Append(stdout, [t |-> "response"])
          /\ result' = Resolved
          /\ pc' = "done"
          /\ UNCHANGED <<cmd, argv, loc, spinner>>
       \/ \E m \in ErrorMessages :
          /\ PayCatch(m, Append(calls, RegisterCall(loc.amount, FALSE)))
    /\ UNCHANGED provider

PayNext ==
    \/ PayGetCurrency
    \/ PayRegister
    \/ Part000GetSupportedTokens
    \/ Part000Register

----------------------------------------------------------------------------
(* show payments: the handler of src/src/commands/show-commands/payments.js *)

\* String.prototype.toLowerCase on the characters of an address
LowerCase(c) ==
    CASE c = "A" -> "a" [] c = "B" -> "b" [] c = "C" -> "c"
      [] c = "D" -> "d" [] c = "E" -> "e" [] c = "F" -> "f"
      [] c = "X" -> "x" [] OTHER -> c

ToLowerCase(a) == [i \in 1..Len(a) |-> LowerCase(a[i])]

\* nahmii.utils.strip0x: the string without a leading 0x
strip0x(a) ==
    IF Len(a) >= 2 /\ a[1] = "0" /\ a[2] = "x" THEN SubSeq(a, 3, Len(a)) ELSE a

isSameAddress(a, b) == ToLowerCase(strip0x(a)) = ToLowerCase(strip0x(b))

isMyPayment(payment) ==
    \/ isSameAddress(payment.sender.wallet, WalletAddress)
    \/ isSameAddress(payment.recipient.wallet, WalletAddress)

\* line 18: await nahmii.NahmiiProvider.from(...); outside the try
PaymentsProviderFrom ==
    /\ cmd = "payments" /\ pc = "start"
    /\ \/ /\ provider' = [provider EXCEPT !.created = TRUE]
          /\ pc' = "getPendingPayments"
          /\ UNCHANGED result
       \/ \E m \in ErrorMessages :
          /\ result' = Rejected(m)
          /\ pc' = "done"
          /\ UNCHANGED provider
    /\ UNCHANGED <<cmd, argv, loc, calls, spinner, stdout>>

\* lines 25-38: await provider.getPendingPayments(); a response without a
\* truthy length is replaced by [], the payments of the wallet are written;
\* reading the length of null throws, a string that is not empty has no
\* filter method, and every error is rethrown as 'Unable to show pending
\* payments.'; stopUpdate in the finally block
PaymentsGetPending ==
    /\ cmd = "payments" /\ pc = "getPendingPayments"
    /\ \/ \E r \in PendingResponses :
          /\ calls' = Append(calls, ReadCall("getPendingPayments", TRUE))
          /\ loc' = [loc EXCEPT !.response = r]
          /\ IF r.t \in {"null", "string"}
             THEN /\ result' = Rejected("Unable to show pending payments.")
                  /\ UNCHANGED stdout
             ELSE /\ stdout' = Append(stdout, SelectSeq(r.v, isMyPayment))
                  /\ result' = Resolved
       \/ /\ calls' = Append(calls, ReadCall("getPendingPayments", FALSE))
          /\ result' = Rejected("Unable to show pending payments.")
          /\ UNCHANGED <<loc, stdout>>
    /\ provider' = [provider EXCEPT !.stopUpdate = @ + 1]
    /\ pc' = "done"
    /\ UNCHANGED <<cmd, argv, spinner>>

PaymentsNext ==
    \/ PaymentsProviderFrom
    \/ PaymentsGetPending

Next == NiiNext \/ FeesNext \/ DepositNext \/ PayNext \/ PaymentsNext

Spec == Init /\ [][Next]_vars

----------------------------------------------------------------------------
(* The NII claim run again after a run that aborted.  The record of calls  *)
(* goes on after a mark that holds what the first run left on the chain:   *)
(* the balance of the wallet it meant to deposit, and the allowance its    *)
(* confirmed approval set, which is the amount of line 93 in base units.   *)

ApprovedAllowance(niiBalance) ==
    DigitsToNat(ParseUnits(FormatUnitsChars(niiBalance, NiiDecimals), NiiDecimals).wei)

RerunMark ==
    [op |-> "rerun", kind |-> "", ok |-> TRUE, amount |-> "", index |-> Undefined,
     options |-> NoOptions, timeout |-> Undefined, hash |-> "", range |-> JsUndefined,
     balance |-> loc.niiBalance,
     approved |-> \E i \in DOMAIN calls :
                     calls[i].op = "confirm" /\ calls[i].kind = "approve" /\ calls[i].ok,
     allowance |-> ApprovedAllowance(loc.niiBalance)]

RerunMarks == {i \in DOMAIN calls : calls[i].op = "rerun"}

\* the command is run again with the same arguments after a run whose
\* deposit failed
Rerun ==
    /\ cmd = "nii" /\ pc = "done" /\ result.state = "rejected" /\ loc.caught
    /\ \E i \in DOMAIN calls : calls[i].kind = "complete" /\ ~calls[i].ok
    /\ RerunMarks = {}
    /\ calls' = Append(calls, RerunMark)
    /\ pc' = "start"
    /\ loc' = InitLoc
    /\ provider' = [created |-> FALSE, stopUpdate |-> 0]
    /\ spinner' = <<>>
    /\ result' = [state |-> "pending", message |-> ""]
    /\ UNCHANGED <<cmd, argv, stdout>>

\* what the second run reads: the balance of the wallet is the one the first
\* run read, and the allowance is the one a confirmed approval of the first
\* run has set
RerunReads ==
    \A i \in RerunMarks :
        /\ (pc = "depositBalance" /\ pc' = "allowance") =>
              loc'.niiBalance = calls[i].balance
        /\ (pc = "allowance" /\ pc' # "closingBalance" /\ calls[i].approved) =>
              loc'.allowance = calls[i].allowance

RetryInit ==
    /\ cmd = "nii"
    /\ argv \in [period : ArgValues, gas : {Undefined}, price : {Undefined},
                 timeout : {Undefined}, blocks : {Undefined}, accruals : {Undefined},
                 amount : {Undefined}, currency : {""}]
    /\ pc = "start"
    /\ loc = InitLoc
    /\ provider = [created |-> FALSE, stopUpdate |-> 0]
    /\ calls = <<>>
    /\ spinner = <<>>
    /\ stdout = <<>>
    /\ result = [state |-> "pending", message |-> ""]

RetryNext ==
    \/ NiiNext /\ RerunReads
    \/ Rerun

SpecRetry == RetryInit /\ [][RetryNext]_vars

----------------------------------------------------------------------------
(* What the record of calls says *)

IsSubmit(c, kind) == c.op = "submit" /\ c.kind = kind
IsConfirm(c, kind) == c.op = "confirm" /\ c.kind = kind

\* the positions in calls where a transaction of the kind was submitted, and
\* where its confirmation was observed
SubmitsOf(kind) == {i \in DOMAIN calls : IsSubmit(calls[i], kind)}
ConfirmationsOf(kind) == {i \in DOMAIN calls : IsConfirm(calls[i], kind) /\ calls[i].ok}

Submitted(kind) == SubmitsOf(kind) # {}
Confirmed(kind) == ConfirmationsOf(kind) # {}

\* the steps whose failure aborts the workflow
RequiredKinds == {"clear", "approve", "complete", "claim", "withdraw", "depositEth"}

\* the positions in calls where the submission or the confirmation of a step
\* of one of the kinds failed
FailuresOf(kinds) ==
    {i \in DOMAIN calls :
        calls[i].op \in {"submit", "confirm"} /\ calls[i].kind \in kinds /\ ~calls[i].ok}

\* the NII workflow has decided its allowance steps and run them through
NiiAtDeposit == cmd = "nii" /\ (pc = "complete" \/ Submitted("complete"))

----------------------------------------------------------------------------
(* The claims *)

SubmitsAfterConfirmation(a, b) ==
    \A j \in SubmitsOf(b) : \A i \in SubmitsOf(a) :
        /\ i < j
        /\ \E k \in ConfirmationsOf(a) : i < k /\ k < j

\* C2: 'approve' never submits before the confirmation of a submitted 'clear',
\* 'complete' never before the confirmation of a submitted 'approve', and
\* 'withdraw' never before the confirmation of a submitted 'claim'.
C2_ConfirmedBeforeNextSubmits ==
    /\ SubmitsAfterConfirmation("clear", "approve")
    /\ SubmitsAfterConfirmation("approve", "complete")
    /\ SubmitsAfterConfirmation("claim", "withdraw")

\* C2 witness: the deposit was submitted after a clearing and an approval
C2_Witness ==
    cmd = "nii" /\ Submitted("clear") /\ Submitted("approve") /\ Submitted("complete")

\* C3 as stated: an invocation that created its provider has called
\* provider.stopUpdate() exactly once when it has ended.
C3_Original ==
    (cmd \in Workflows /\ pc = "done" /\ provider.created) => provider.stopUpdate = 1

\* C4: once the submission or the confirmation of a required step has failed,
\* no transaction is submitted and no confirmation awaited after it, the
\* handler never resolves, and it has rejected when it has ended.
C4_AbortOnRequiredFailure ==
    \A i \in FailuresOf(RequiredKinds) :
        /\ \A j \in DOMAIN calls : j > i => calls[j].op = "read"
        /\ result.state # "resolved"
        /\ pc = "done" => result.state = "rejected"

\* C4 witness: the handler has ended after the confirmation of 'approve' failed
C4_Witness ==
    /\ pc = "done"
    /\ \E i \in FailuresOf({"approve"}) : calls[i].op = "confirm"

\* the positions in calls where the submission or the confirmation of the
\* release failed
ReleaseFailures == FailuresOf({"release"})

\* every call but those of the release step succeeded
OnlyReleaseFailed ==
    \A i \in DOMAIN calls : calls[i].ok \/ calls[i].kind = "release"

\* C5: when the submission or the confirmation of 'release' fails, the message
\* of the failure is given to the progress reporter, the catch block of the
\* workflow is not entered for it, the next call is the re-read of the
\* balance, the workflow completes with its deposit when nothing else fails,
\* and the release slot of the report is null.
C5_ReleaseIsAdvisory ==
    \A i \in ReleaseFailures :
        /\ \E k \in DOMAIN spinner :
              spinner[k].op = "fail" /\ spinner[k].text \in ErrorMessages
        /\ Len(calls) = i => pc = "depositBalance" /\ ~loc.caught
        /\ Len(calls) > i =>
              calls[i + 1].op = "read" /\ calls[i + 1].kind = "balanceOf"
        /\ OnlyReleaseFailed => ~loc.caught /\ result.state # "rejected"
        /\ (OnlyReleaseFailed /\ pc = "done") =>
              Confirmed("complete") /\ result.state = "resolved" /\ Len(stdout) = 1
        /\ stdout # <<>> => stdout[1][1] = JsNull

\* C5 witness: the report was written by a run whose release failed and whose
\* approval and deposit ran
C5_Witness ==
    /\ ReleaseFailures # {}
    /\ Confirmed("approve") /\ Confirmed("complete")
    /\ stdout # <<>>

\* the number of steps of the NII workflow that were attempted
AttemptedSteps ==
    Cardinality({i \in DOMAIN calls : calls[i].op = "submit"})

\* the run of the scenario: the release failed, 'clear' and 'approve' were
\* skipped and the deposit was confirmed
ScenarioRun ==
    /\ cmd = "nii" /\ stdout # <<>>
    /\ ReleaseFailures # {}
    /\ ~Submitted("clear") /\ ~Submitted("approve")
    /\ Confirmed("complete")

\* C6 (as amended): the NII claim report always has exactly three slots, for
\* release, approve and complete, whatever steps were attempted or skipped; a
\* skipped step keeps its slot, as null.  The run in which the release fails,
\* 'clear' and 'approve' are skipped and the deposit confirms writes a report
\* of length 3: null, null, a Receipt.
C6_ReportHasThreeSlots ==
    (cmd = "nii" /\ stdout # <<>>) =>
        /\ Len(stdout[1]) = 3
        /\ ScenarioRun =>
              /\ stdout[1][1] = JsNull
              /\ stdout[1][2] = JsNull
              /\ stdout[1][3].t = "receipt"

\* C6 witness: the report of the scenario run was written
C6_Witness == ScenarioRun /\ AttemptedSteps = 2

\* C6 as stated: the report has one slot per attempted step and none for a
\* skipped step; the scenario run writes a report of length 2: null, a Receipt.
C6_Original ==
    (cmd = "nii" /\ stdout # <<>>) =>
        /\ Len(stdout[1]) = AttemptedSteps
        /\ ScenarioRun =>
              /\ Len(stdout[1]) = 2
              /\ stdout[1][1] = JsNull
              /\ stdout[1][2].t = "receipt"

\* the receipt of the confirmed transaction of a kind, null when none was
\* confirmed
ReceiptOf(kind) ==
    IF Confirmed(kind)
    THEN reduceReceipt(ConfirmationOf(calls[CHOOSE i \in ConfirmationsOf(kind) : TRUE].hash))
    ELSE JsNull

\* C7: in every completed run of the NII workflow the report is the sequence
\* [release, approve, complete]: each position holds the receipt of its own
\* step, and null exactly when the step was skipped (approve) or failed as
\* advisory (release); the deposit's position is never null.
C7_ReportPositions ==
    (cmd = "nii" /\ stdout # <<>>) =>
        /\ stdout[1] = <<ReceiptOf("release"), ReceiptOf("approve"), ReceiptOf("complete")>>
        /\ stdout[1][1] = JsNull <=> ReleaseFailures # {}
        /\ stdout[1][2] = JsNull <=> ~Submitted("approve")
        /\ stdout[1][3] # JsNull

\* C7 witness: a report with the release slot null and the approve slot filled
C7_Witness ==
    /\ cmd = "nii" /\ stdout # <<>>
    /\ stdout[1][1] = JsNull /\ stdout[1][2] # JsNull

\* C8: a workflow writes to the output channel at most once, and only when
\* it has completed: what is written is the report of the NII workflow or of
\* a deposit, written after its last step confirmed; a run whose catch block was entered,
\* or in which a required step failed, has written nothing, however many
\* steps were confirmed before.
C8_NoPartialOutput ==
    cmd \in Workflows =>
        /\ Len(stdout) <= 1
        /\ stdout # <<>> =>
              \/ cmd = "nii" /\ Confirmed("complete")
              \/ cmd = "deposit" /\ (Confirmed("complete") \/ Confirmed("depositEth"))
        /\ loc.caught => stdout = <<>>
        /\ FailuresOf(RequiredKinds) # {} => stdout = <<>>

\* C8 witness: a run has aborted at its deposit after the approval confirmed
C8_Witness ==
    /\ cmd = "nii" /\ pc = "done" /\ loc.caught
    /\ Confirmed("approve")
    /\ FailuresOf({"complete"}) # {}

\* the validation of the invoked command accepts its arguments, and the
\* message it rejects them with
ValidationOk ==
    CASE cmd = "nii" -> NiiValidation(argv).ok
      [] cmd = "fees" -> FeesInvocation(argv).ok
      [] OTHER -> DepositValidation(argv).ok

ValidationMessage ==
    CASE cmd = "nii" -> NiiValidation(argv).msg
      [] cmd = "fees" -> FeesInvocation(argv).msg
      [] OTHER -> DepositValidation(argv).msg

\* arguments that must be rejected: an amount that is no number or is zero, a
\* period below 1, a timeout, gas limit or gas price that is zero or
\* negative (the NII handler replaces a gas limit or price of 0 by its default),
\* a range that is no number
MustBeRejected ==
    \/ cmd = "deposit" /\ argv.amount \in {Str(<<"f", "o", "o">>), Str(<<"0">>)}
    \/ cmd = "nii" /\ argv.period \in {Num(0), Num(0 - 1)}
    \/ cmd \in {"nii", "fees"} /\ argv.timeout \in {Num(0), Num(0 - 1)}
    \/ cmd \in {"nii", "fees"} /\ (argv.gas = Num(0 - 1) \/ argv.price = Num(0 - 1))
    \/ cmd = "fees" /\ (argv.gas = Num(0) \/ argv.price = Num(0))
    \/ cmd = "fees" /\ argv.blocks = Str(<<"f", "o", "o">>)
    \/ cmd = "fees" /\ argv.blocks = Undefined /\ argv.accruals = Str(<<"1", "-", "x">>)

\* the messages of the validators
ValidationMessages ==
    {"Period must be a number from 1 to 120.",
     "Gas limit must be a number higher than 0.",
     "Gas price must be a number higher than 0.",
     "Timeout must be a number higher than 0.",
     "invalid decimal value",
     "First block number must be a number higher than 0.",
     "Last block number must be a number higher than 0.",
     "First accrual index must be a number higher than 0.",
     "Last accrual index must be a number higher than 0.",
     "Amount must be a number higher than zero.",
     "Amount must be higher than zero.",
     "Arguments accruals and blocks are mutually exclusive"}

\* C9: when an argument is rejected by the validation of the handler (as the
\* amounts 'foo' and '0' of a deposit are, and every zero or negative timeout),
\* the handler rejects with the message of the validator, and at no time is
\* the provider created, a call made or the progress reporter used.
C9_ValidationBeforeAnyCall ==
    cmd \in Workflows =>
        /\ MustBeRejected => ~ValidationOk
        /\ ~ValidationOk =>
              /\ pc \in {"start", "done"}
              /\ ~provider.created
              /\ calls = <<>> /\ spinner = <<>> /\ stdout = <<>>
              /\ pc = "done" =>
                    /\ result = Rejected(ValidationMessage)
                    /\ result.message \in ValidationMessages

\* C9 witness: the NII handler has rejected a timeout of 0
C9_Witness ==
    /\ cmd = "nii" /\ pc = "done"
    /\ argv.timeout = Num(0)
    /\ result = Rejected("Timeout must be a number higher than 0.")

\* the value is a strictly positive integer
IsPositiveInteger(v) == LET n == ParseInt(v) IN n.t = "number" /\ n.n > 0

\* C10 as stated: the handler goes on past its validation only when the gas
\* limit, the gas price and the timeout it was given are strictly positive
\* integers.
C10_Original ==
    (cmd \in {"nii", "fees"} /\ pc \notin {"start", "done"}) =>
        /\ IsPositiveInteger(argv.gas)
        /\ IsPositiveInteger(argv.price)
        /\ IsPositiveInteger(argv.timeout)

----------------------------------------------------------------------------
(* The gas policy *)

\* the digits of a strictly positive integer
IsPositiveDigits(ds) ==
    /\ ds # <<>>
    /\ \A i \in 1..Len(ds) : IsDigit(ds[i])
    /\ \E i \in 1..Len(ds) : ds[i] # "0"

\* C11 as stated: in the NII claim and the fee claim, every transaction is
\* submitted with a gas limit and a gas price that are strictly positive
\* integers, and every confirmation is awaited with a timeout that is a
\* finite strictly positive integer.
C11_Original ==
    cmd \in {"nii", "fees"} =>
        \A i \in DOMAIN calls :
            /\ calls[i].op = "submit" =>
                  /\ calls[i].options.gasLimit.t = "number"
                  /\ calls[i].options.gasLimit.n > 0
                  /\ IsPositiveDigits(calls[i].options.gasPrice)
            /\ calls[i].op = "confirm" =>
                  /\ calls[i].timeout.t = "number"
                  /\ calls[i].timeout.n > 0

\* the gas policy and the timeout the validation of the invoked command
\* resolved from the arguments
ResolvedOptions ==
    CASE cmd = "nii" ->
            [gasLimit |-> NiiValidation(argv).gasLimit,
             gasPrice |-> NiiValidation(argv).gasPrice]
      [] cmd = "fees" ->
            [gasLimit |-> FeesValidation(argv).gasLimit,
             gasPrice |-> FeesValidation(argv).gasPrice]
      [] OTHER ->
            [gasLimit |-> DepositValidation(argv).gasLimit,
             gasPrice |-> DepositValidation(argv).gasPrice]

ResolvedTimeout ==
    CASE cmd = "nii" -> NiiValidation(argv).timeout
      [] cmd = "fees" -> FeesValidation(argv).timeout
      [] OTHER -> Undefined

\* C12: within one invocation every transaction is submitted with the one
\* gas policy (gasLimit, gasPrice) resolved from the arguments and every
\* confirmation is awaited with the one timeout resolved from them: any two
\* submissions carry the same options, any two waits the same timeout.
C12_OneGasPolicy ==
    /\ \A i \in DOMAIN calls :
          /\ calls[i].op = "submit" => calls[i].options = ResolvedOptions
          /\ calls[i].op = "confirm" => calls[i].timeout = ResolvedTimeout
    /\ \A i, j \in DOMAIN calls :
          /\ (calls[i].op = "submit" /\ calls[j].op = "submit")
                => calls[i].options = calls[j].options
          /\ (calls[i].op = "confirm" /\ calls[j].op = "confirm")
                => calls[i].timeout = calls[j].timeout

\* C12 witness: an NII claim has submitted its release, clearing, approval and
\* deposit, and a fee claim its claim and withdrawal, each confirmed
C12_Witness ==
    \/ /\ cmd = "nii" /\ pc = "done"
       /\ Confirmed("release") /\ Confirmed("clear")
       /\ Confirmed("approve") /\ Confirmed("complete")
    \/ /\ cmd = "fees" /\ pc = "done"
       /\ Confirmed("claim") /\ Confirmed("withdraw")

----------------------------------------------------------------------------
(* The range of a fee claim *)

\* the range option the fee handler reads, and its bounds as written
FeesRangeText == IF IsTruthy(argv.blocks) THEN argv.blocks ELSE argv.accruals

FeesBounds == Split(FeesRangeText.s, "-")

\* the text parses as a non-negative integer
ParsesAsIndex(text) ==
    LET n == ParseInt(Str(text)) IN n.t = "number" /\ n.n >= 0

\* the fee handler has failed without a call made, or is about to
FeesFailsAtValidation ==
    /\ pc \in {"start", "done"}
    /\ pc = "done" => (result.state = "rejected" /\ calls = <<>> /\ ~provider.created)

\* C13 as stated: the range parser of the fee claim gives '0-2' the bounds
\* first 0, last 2 and '3' the bounds first 3, last 3, and every bound that
\* does not parse as a non-negative integer makes the handler fail.
C13_Original ==
    (cmd = "fees" /\ IsTruthy(FeesRangeText)) =>
        /\ (pc # "start" /\ loc.range.t = "range") =>
              /\ FeesRangeText = Str(<<"0", "-", "2">>)
                    => (loc.range.first = 0 /\ loc.range.last = 2)
              /\ FeesRangeText = Str(<<"3">>)
                    => (loc.range.first = 3 /\ loc.range.last = 3)
        /\ (\E k \in DOMAIN FeesBounds : ~ParsesAsIndex(FeesBounds[k]))
              => FeesFailsAtValidation

\* the call is one the range is passed to: the claimable-fees query or the
\* submission of the claim
PassesRange(c) ==
    \/ c.op = "read" /\ c.kind = "claimableFees"
    \/ c.op = "submit" /\ c.kind = "claim"

\* C14 as stated: whenever the range is passed to a claimable-fees query or
\* to a claim-fees transaction, its last bound is not less than its first.
C14_Original ==
    cmd = "fees" =>
        \A i \in DOMAIN calls :
            PassesRange(calls[i]) =>
                /\ calls[i].range.t = "range"
                /\ calls[i].range.last >= calls[i].range.first

\* the range kind the invocation names
SuppliedKind == IF argv.blocks.t # "undefined" THEN "block" ELSE "accrual"

\* C15: an invocation of the fee claim that supplies both a block range and an
\* accrual range is rejected with the message of the conflict, before the
\* provider is created or any call made; and every query and transaction that
\* is passed a range is passed the one of the single kind that was supplied.
C15_OneRangeKind ==
    cmd = "fees" =>
        /\ (argv.blocks.t # "undefined" /\ argv.accruals.t # "undefined") =>
              /\ pc \in {"start", "done"}
              /\ calls = <<>> /\ ~provider.created
              /\ pc = "done" =>
                    result = Rejected("Arguments accruals and blocks are mutually exclusive")
        /\ \A i \in DOMAIN calls :
              PassesRange(calls[i]) =>
                  /\ (argv.blocks.t = "undefined") # (argv.accruals.t = "undefined")
                  /\ calls[i].range.t = "range"
                  /\ calls[i].range.type = SuppliedKind

\* C15 witness: an invocation with both '0-2' as blocks and '3' as accruals
\* has been rejected
C15_Witness ==
    /\ cmd = "fees" /\ pc = "done"
    /\ argv.blocks = Str(<<"0", "-", "2">>) /\ argv.accruals = Str(<<"3">>)
    /\ result.state = "rejected"

----------------------------------------------------------------------------
(* The two concurrent queries of a fee claim *)

\* the fee claim has decided whether to claim: it said 'Nothing to claim', or
\* is at the submission of the claim or beyond it
FeesDecided ==
    \/ pc \in {"claim", "confirmClaim", "withdrawable", "withdraw", "confirmWithdraw"}
    \/ \E i \in DOMAIN spinner : spinner[i].text = "Nothing to claim"
    \/ \E i \in DOMAIN calls : calls[i].op = "submit"

\* the calls of the two concurrent queries: the first two calls of the handler
QueryCalls == {i \in DOMAIN calls : i <= 2 /\ calls[i].op = "read"}

\* C16: the claimable and the staged amount are queried together (neither is
\* outstanding without the other having been issued); in whatever order they
\* complete, the claim is submitted or 'Nothing to claim' decided only when
\* both have completed; and when either of them fails no transaction is
\* submitted and the handler rejects.
C16_BothQueriesBeforeDecision ==
    cmd = "fees" =>
        /\ (loc.claimableQuery = "idle") <=> (loc.stagedQuery = "idle")
        /\ pc = "queries" =>
              (loc.claimableQuery = "pending" \/ loc.stagedQuery = "pending")
        /\ FeesDecided =>
              /\ loc.claimableQuery = "done" /\ loc.stagedQuery = "done"
              /\ Len(calls) >= 2
              /\ {calls[1].kind, calls[2].kind} = {"claimableFees", "withdrawableFees"}
              /\ calls[1].op = "read" /\ calls[1].ok
              /\ calls[2].op = "read" /\ calls[2].ok
        /\ (\E i \in QueryCalls : ~calls[i].ok) =>
              /\ \A j \in DOMAIN calls : calls[j].op # "submit"
              /\ ~FeesDecided
              /\ pc = "done" /\ result.state = "rejected"

\* C16 witness: the staged amount arrived before the claimable amount, and
\* the claim was then submitted
C16_Witness ==
    /\ cmd = "fees" /\ Submitted("claim")
    /\ calls[1].kind = "withdrawableFees" /\ calls[2].kind = "claimableFees"

----------------------------------------------------------------------------
(* The receipts of the report *)

\* the gas used by the confirmation records, written in base 10
GasUsedText(n) == IF n = 123 THEN "123" ELSE IF n = 1234 THEN "1234" ELSE "?"

\* the receipt is the reduction of the confirmation record
IsReceiptOf(receipt, record) ==
    /\ DOMAIN receipt = {"t", "transactionHash", "blockNumber", "gasUsed", "href"}
    /\ receipt.transactionHash = record.transactionHash
    /\ receipt.blockNumber = record.blockNumber
    /\ receipt.gasUsed = GasUsedText(record.gasUsed)
    /\ receipt.href \in {"https://ropsten.etherscan.io/tx/tx hash 1",
                         "https://ropsten.etherscan.io/tx/tx hash 2"}
    /\ receipt.href = "https://ropsten.etherscan.io/tx/" \o record.transactionHash

\* C17: in the report of the NII claim, the slot of a step that has a
\* confirmation record is {transactionHash, blockNumber, gasUsed, href} with
\* the hash and the block number of the record, its gasUsed written in base
\* 10 and the link 'https://ropsten.etherscan.io/tx/' followed by the hash;
\* the slot of a step that has no record is null.
C17_ReducedReceipts ==
    (cmd = "nii" /\ stdout # <<>>) =>
        LET report == stdout[1]
            records == <<loc.releaseReceipt, loc.approveReceipt, loc.completeReceipt>>
        IN  \A k \in 1..3 :
                IF records[k].t = "record"
                THEN IsReceiptOf(report[k], records[k])
                ELSE report[k] = JsNull

\* C17 witness: a report with the receipt of the release (hash 'tx hash 1',
\* gas used '123'), no receipt of the approval, and the receipt of the deposit
\* (hash 'tx hash 2', gas used '1234')
C17_Witness ==
    /\ cmd = "nii" /\ stdout # <<>>
    /\ stdout[1][1] # JsNull /\ stdout[1][1].gasUsed = "123"
    /\ stdout[1][2] = JsNull
    /\ stdout[1][3].gasUsed = "1234"

----------------------------------------------------------------------------
(* The amount in base units *)

\* the number of digits after the point of a decimal numeral
FractionDigits(a) ==
    LET points == {i \in 1..Len(a) : a[i] = "."}
    IN  IF points = {} THEN 0 ELSE Len(a) - (CHOOSE i \in points : TRUE)

\* the digits of the integer a * 10^d, for a decimal numeral a with at most
\* d digits after the point: the digits of a with the point moved d places
ExactBaseUnits(a, d) ==
    LET digits == SelectSeq(a, IsDigit)
    IN  Join(StripLeadingZeros(digits \o Zeros(d - FractionDigits(a))))

\* C18 as stated: the amount a payment is registered with, and the amount a
\* deposit of ETH is submitted with, is the base-10 string of the integer
\* a * 10^d for the amount a given and the decimals d of the currency (d up to
\* 18): '1.1' of 18 decimals is '1100000000000000000' and '1000' of 15
\* decimals is '1000000000000000000'.
C18_Original ==
    \A i \in DOMAIN calls :
        /\ (calls[i].op = "register" /\ IsDecimalNumeral(argv.amount.s)
                /\ FractionDigits(argv.amount.s) <= loc.decimals) =>
              /\ calls[i].amount = ExactBaseUnits(argv.amount.s, loc.decimals)
              /\ (argv.amount = Str(<<"1", ".", "1">>) /\ loc.decimals = 18)
                    => calls[i].amount = "1100000000000000000"
              /\ (argv.amount = Str(<<"1", "0", "0", "0">>) /\ loc.decimals = 15)
                    => calls[i].amount = "1000000000000000000"
        /\ (cmd = "deposit" /\ calls[i].op = "submit" /\ calls[i].kind = "depositEth") =>
              calls[i].amount = ExactBaseUnits(argv.amount.s, 18)

\* the same of the handler of src/src/commands/pay.js alone
C18_PayJsExact ==
    cmd = "pay" =>
        \A i \in DOMAIN calls :
            (calls[i].op = "register" /\ IsDecimalNumeral(argv.amount.s)
                /\ FractionDigits(argv.amount.s) <= loc.decimals) =>
                  calls[i].amount = ExactBaseUnits(argv.amount.s, loc.decimals)

----------------------------------------------------------------------------
(* The steps of a deposit *)

\* the kinds of the calls made, in order, with whether each is a submission
CallsMade == [i \in DOMAIN calls |-> <<calls[i].op, calls[i].kind>>]

\* C19: a deposit of ETH submits one deposit transaction and awaits its one
\* confirmation, and its report has the one receipt of that confirmation; a
\* deposit of a token submits 'approve', awaits its confirmation, submits
\* 'complete' and awaits its confirmation, never submits a 'clear', and its
\* report has two receipts, the one of the approval first and the one of
\* 'complete' second.
C19_DepositSteps ==
    cmd = "deposit" =>
        /\ \A i \in DOMAIN calls : calls[i].kind # "clear"
        /\ argv.currency = "ETH" =>
              /\ Len(calls) <= 2
              /\ \A i \in DOMAIN calls :
                    CallsMade[i] = <<<<"submit", "depositEth">>,
                                     <<"confirm", "depositEth">>>>[i]
              /\ stdout # <<>> =>
                    /\ Len(stdout[1]) = 1
                    /\ Len(calls) = 2 /\ calls[2].ok
                    /\ IsReceiptOf(stdout[1][1], ConfirmationOf(calls[2].hash))
        /\ argv.currency # "ETH" =>
              /\ Len(calls) <= 4
              /\ \A i \in DOMAIN calls :
                    CallsMade[i] = <<<<"submit", "approve">>, <<"confirm", "approve">>,
                                     <<"submit", "complete">>,
                                     <<"confirm", "complete">>>>[i]
              /\ Len(calls) >= 3 => calls[2].ok
              /\ stdout # <<>> =>
                    /\ Len(stdout[1]) = 2
                    /\ Len(calls) = 4 /\ calls[4].ok
                    /\ IsReceiptOf(stdout[1][1], ConfirmationOf(calls[2].hash))
                    /\ IsReceiptOf(stdout[1][2], ConfirmationOf(calls[4].hash))
        /\ (pc = "done" /\ result.state = "resolved") => Len(stdout) = 1

\* C19 witness: a deposit of 0.07 TT1 has written its report, the approval
\* confirmed as 'tx hash 1' and the deposit as 'tx hash 2'
C19_Witness ==
    /\ cmd = "deposit" /\ argv.currency = "TT1" /\ pc = "done"
    /\ argv.amount = Str(<<"0", ".", "0", "7">>)
    /\ stdout # <<>>
    /\ stdout[1][1].transactionHash = "tx hash 1"
    /\ stdout[1][2].transactionHash = "tx hash 2"

----------------------------------------------------------------------------
(* The error of an aborted workflow *)

\* what the handlers put in front of the message of the error they rethrow
ErrorPrefixes == {"", "Claiming NII failed: ", "Claiming of fees failed: "}

\* C20 as stated: when the submission or the confirmation of a required step
\* has failed with the message m, the handler rejects with an error whose
\* message contains m (the steps fail with the one message of ErrorMessages).
C20_Original ==
    (cmd \in Workflows /\ FailuresOf(RequiredKinds) # {} /\ pc = "done") =>
        /\ result.state = "rejected"
        /\ \E m \in ErrorMessages, prefix \in ErrorPrefixes :
              result.message = prefix \o m

\* the same when the balance read of the cleanup block of the NII claim succeeds
C20_WhenCleanupReadSucceeds ==
    (cmd \in Workflows /\ FailuresOf(RequiredKinds) # {} /\ pc = "done"
        /\ calls[Len(calls)].ok) =>
        /\ result.state = "rejected"
        /\ \E m \in ErrorMessages, prefix \in ErrorPrefixes :
              result.message = prefix \o m

----------------------------------------------------------------------------
(* The stages of a payment *)

PayCommands == {"pay", "pay (part_000)"}

RegisterCalls == {i \in DOMAIN calls : calls[i].op = "register"}

\* the messages of the errors a stage before the registration, or the
\* registration, fails with
PayStageMessages ==
    ErrorMessages \cup
    {"Cannot read property 'decimals' of undefined"} \cup
    {ParseUnits(a.s, d).msg : a \in PayAmountValues, d \in TokenDecimals}

C22_Original ==
    (cmd \in PayCommands /\ pc = "done") => provider.stopUpdate >= 1

----------------------------------------------------------------------------
(* The pending payments shown *)

\* the forms of the configured address, which differ in case and prefix only
MyAddressForms == {WalletAddress, <<"0", "a">>, <<"0", "x", "0", "a">>}

IsMine(p) == p.sender.wallet \in MyAddressForms \/ p.recipient.wallet \in MyAddressForms

\* the payments of the wallet among the first n of a
RECURSIVE MineAmong(_, _)
MineAmong(a, n) ==
    IF n = 0 THEN <<>>
    ELSE IF IsMine(a[n]) THEN Append(MineAmong(a, n - 1), a[n])
    ELSE MineAmong(a, n - 1)

PendingRead == \E i \in DOMAIN calls : calls[i].kind = "getPendingPayments"

PendingReadFailed ==
    \E i \in DOMAIN calls : calls[i].kind = "getPendingPayments" /\ ~calls[i].ok

\* C23 as stated: the command writes exactly the pending payments whose
\* sender or recipient is the configured wallet (case and 0x prefix ignored),
\* in the order of the API; when the response is not a non-empty array it
\* writes the empty array; when the API call fails it rejects with 'Unable to
\* show pending payments.' and writes nothing.
C23_Original ==
    (cmd = "payments" /\ pc = "done" /\ PendingRead) =>
        IF PendingReadFailed
        THEN /\ result = Rejected("Unable to show pending payments.")
             /\ stdout = <<>>
        ELSE IF loc.response.t = "array" /\ loc.response.v # <<>>
        THEN /\ result = Resolved
             /\ stdout = <<MineAmong(loc.response.v, Len(loc.response.v))>>
        ELSE /\ result = Resolved
             /\ stdout = << <<>> >>

\* the same for the responses that are an array or an object without a length
C23_ForArraysAndObjects ==
    (cmd = "payments" /\ pc = "done" /\ PendingRead) =>
        IF PendingReadFailed
        THEN /\ result = Rejected("Unable to show pending payments.")
             /\ stdout = <<>>
        ELSE loc.response.t \in {"array", "object"} =>
                /\ result = Resolved
                /\ stdout = <<MineAmong(loc.response.v, Len(loc.response.v))>>

----------------------------------------------------------------------------
(* The progress report of the NII claim *)

SucceedNotes(label) ==
    {i \in DOMAIN spinner : spinner[i].op = "succeed" /\ spinner[i].step = label}

StartNotes(label) ==
    {i \in DOMAIN spinner : spinner[i].op = "start" /\ spinner[i].step = label}

\* the conditional steps: their labels in order, and the transaction of each
ConditionalLabels == <<"3/8", "4/8", "5/8", "6/8">>

StepOfLabel(label) == IF label \in {"3/8", "4/8"} THEN "clear" ELSE "approve"

\* C24: in a run of the NII claim that has started step 7/8, each of the
\* labels 3/8, 4/8, 5/8 and 6/8 has exactly one success notification, which
\* says 'Skipped' exactly when the transaction of the step was not submitted;
\* these notifications come in the order of the labels and before the start
\* of 7/8.
C24_SkippedStepsAreReported ==
    (cmd = "nii" /\ StartNotes("7/8") # {}) =>
        /\ \A n \in 1..4 :
              LET label == ConditionalLabels[n]
              IN  /\ Cardinality(SucceedNotes(label)) = 1
                  /\ \A i \in SucceedNotes(label) :
                        /\ spinner[i].text = "Skipped"
                              <=> ~Submitted(StepOfLabel(label))
                        /\ \A j \in StartNotes("7/8") : i < j
        /\ \A n \in 1..3 :
              \A i \in SucceedNotes(ConditionalLabels[n]),
                 j \in SucceedNotes(ConditionalLabels[n + 1]) : i < j

\* the deposit was reached with the clearing skipped and the approval made
C24_Witness ==
    /\ cmd = "nii" /\ StartNotes("7/8") # {}
    /\ ~Submitted("clear") /\ Submitted("approve")
    /\ \E i \in SucceedNotes("4/8") : spinner[i].text = "Skipped"
    /\ \E i \in SucceedNotes("6/8") : spinner[i].text # "Skipped"

----------------------------------------------------------------------------
(* Transactions in flight in the NII claim *)

AllSubmits == {i \in DOMAIN calls : calls[i].op = "submit"}

\* a confirmation of the transaction submitted at i was awaited before j, and
\* one was observed before j
AwaitedBetween(i, j) ==
    \E k \in (i + 1)..(j - 1) : IsConfirm(calls[k], calls[i].kind)

ConfirmedBetween(i, j) ==
    \E k \in (i + 1)..(j - 1) : IsConfirm(calls[k], calls[i].kind) /\ calls[k].ok

\* the submitted transactions no confirmation of which was observed, and those
\* no confirmation of which was awaited yet
Unconfirmed ==
    {i \in AllSubmits : calls[i].ok /\ ~ConfirmedBetween(i, Len(calls) + 1)}

InFlight ==
    {i \in AllSubmits : calls[i].ok /\ ~AwaitedBetween(i, Len(calls) + 1)}

FailNotes == {k \in DOMAIN spinner : spinner[k].op = "fail"}

\* C25 as stated: in the NII claim at most one submitted transaction is
\* unconfirmed at any time, and every step, the release included, was
\* confirmed before the transaction of the next step is submitted.
C25_Original ==
    cmd = "nii" =>
        /\ Cardinality(Unconfirmed) <= 1
        /\ \A j \in AllSubmits : \A i \in AllSubmits :
              i < j => calls[i].ok /\ ConfirmedBetween(i, j)

\* C25 amended: at most one submitted transaction is awaiting its
\* confirmation at any time; a required step is confirmed before the next
\* step submits; the release is confirmed, or its failure was told to the
\* progress reporter, before the next step submits, so that only a release
\* whose confirmation failed is unconfirmed while a later step submits.
C25_OneInFlight ==
    cmd = "nii" =>
        /\ Cardinality(InFlight) <= 1
        /\ \A j \in AllSubmits : \A i \in AllSubmits :
              i < j =>
                 IF calls[i].kind = "release"
                 THEN \/ calls[i].ok /\ ConfirmedBetween(i, j)
                      \/ /\ ~calls[i].ok \/ AwaitedBetween(i, j)
                         /\ FailNotes # {}
                 ELSE calls[i].ok /\ ConfirmedBetween(i, j)
        /\ Cardinality({i \in Unconfirmed : calls[i].kind # "release"}) <= 1

\* the deposit was submitted while the release, whose confirmation failed,
\* and the deposit are both unconfirmed
C25_Witness ==
    /\ cmd = "nii" /\ Cardinality(Unconfirmed) = 2
    /\ \E i \in Unconfirmed : calls[i].kind = "release"
    /\ \E i \in Unconfirmed : calls[i].kind = "complete"
    /\ Confirmed("approve")

----------------------------------------------------------------------------
(* The receipts of the confirmed steps *)

\* the receipts of the confirmations observed among the first n calls, in
\* the order they were observed
RECURSIVE ConfirmedReceipts(_)
ConfirmedReceipts(n) ==
    IF n = 0 THEN <<>>
    ELSE IF calls[n].op = "confirm" /\ calls[n].ok
    THEN Append(ConfirmedReceipts(n - 1), reduceReceipt(ConfirmationOf(calls[n].hash)))
    ELSE ConfirmedReceipts(n - 1)

IsReceipt(r) == r # JsNull

\* C26 as stated: the receipts of the report of the NII claim are those of
\* the steps that were confirmed, one for each, in the order the steps ran;
\* the receipt of a confirmed 'clear' is among them.
C26_Original ==
    (cmd = "nii" /\ stdout # <<>>) =>
        SelectSeq(stdout[1], IsReceipt) = ConfirmedReceipts(Len(calls))

\* the same of the runs that did not clear the allowance
C26_WithoutClear ==
    (cmd = "nii" /\ stdout # <<>> /\ ~Confirmed("clear")) =>
        SelectSeq(stdout[1], IsReceipt) = ConfirmedReceipts(Len(calls))

----------------------------------------------------------------------------
(* The decisions of the fee claim *)

WithdrawableReads ==
    {i \in DOMAIN calls : calls[i].kind = "withdrawableFees" /\ calls[i].ok}

\* the withdrawable amount was read again (the first read is the one of the
\* staged amount), and where
ReadAgain == Cardinality(WithdrawableReads) = 2

ReadAgainAt == CHOOSE i \in WithdrawableReads : \A j \in WithdrawableReads : j <= i

\* C27: in the fee claim a claim is submitted exactly when the claimable
\* amount is greater than zero; the withdrawable amount is read again after
\* the claim was confirmed or left out, and a withdrawal is submitted exactly
\* when that amount is greater than zero, for that amount.
C27_ClaimAndWithdrawDecisions ==
    cmd = "fees" =>
        /\ Submitted("claim") => FeesDecided /\ 0 < loc.claimableAmount
        /\ (FeesDecided /\ pc # "claim" /\ pc # "queries") =>
              (Submitted("claim") <=> 0 < loc.claimableAmount)
        /\ ReadAgain =>
              /\ Submitted("claim") <=> 0 < loc.claimableAmount
              /\ \A i \in SubmitsOf("claim") :
                    \E k \in ConfirmationsOf("claim") : i < k /\ k < ReadAgainAt
              /\ pc # "withdraw" =>
                    (Submitted("withdraw") <=> 0 < loc.withdrawableAmount)
        /\ \A i \in SubmitsOf("withdraw") :
              /\ ReadAgain /\ ReadAgainAt < i
              /\ 0 < loc.withdrawableAmount
              /\ calls[i].amount = Join(NatToDigits(loc.withdrawableAmount))

\* a withdrawal of the amount read after a confirmed claim, which is not the
\* amount that was staged before the claim
C27_Witness ==
    /\ cmd = "fees" /\ Confirmed("claim") /\ Confirmed("withdraw")
    /\ loc.stagedAmount # loc.withdrawableAmount
    /\ \E i \in SubmitsOf("withdraw") :
          calls[i].amount = Join(NatToDigits(loc.withdrawableAmount))

----------------------------------------------------------------------------
(* The NII claim run again *)

FirstRun == {i \in DOMAIN calls : \A k \in RerunMarks : i < k}

SecondRun == {i \in DOMAIN calls : \E k \in RerunMarks : i > k}

\* the first run aborted at its deposit after its approval was confirmed
AbortedAtDeposit ==
    /\ RerunMarks # {}
    /\ \E i \in FirstRun : IsConfirm(calls[i], "approve") /\ calls[i].ok
    /\ \E i \in FirstRun : calls[i].kind = "complete" /\ ~calls[i].ok

\* C28: when a run of the NII claim aborted at the deposit after its approval
\* was confirmed and the command is run again with the balance of the wallet
\* unchanged, the second run submits neither 'clear' nor 'approve', and goes
\* from the allowance check to the deposit.
C28_Resumable ==
    AbortedAtDeposit =>
        /\ \A i \in SecondRun :
              ~IsSubmit(calls[i], "clear") /\ ~IsSubmit(calls[i], "approve")
        /\ pc \notin {"clear", "confirmClear", "approve", "confirmApprove"}

\* the second run has submitted the deposit
C28_Witness ==
    /\ AbortedAtDeposit
    /\ \E i \in SecondRun : IsSubmit(calls[i], "complete") /\ calls[i].ok

----------------------------------------------------------------------------
(* The amount of the deposit of the NII claim *)

\* C29 as stated: in the NII claim no deposit is submitted for an amount of
\* zero: when the balance read after the release is zero, 'complete' is not
\* submitted.
C29_Original ==
    cmd = "nii" =>
        \A i \in SubmitsOf("complete") :
            /\ loc.niiBalance > 0
            /\ calls[i].amount # FormatUnits(0, NiiDecimals)

\* a deposit, when one is submitted, is of the balance read after the release
C29_DepositOfBalanceRead ==
    cmd = "nii" =>
        \A i \in SubmitsOf("complete") :
            calls[i].amount = FormatUnits(loc.niiBalance, NiiDecimals)

----------------------------------------------------------------------------
(* The transactions of one run of the NII claim *)

NiiKinds == <<"release", "clear", "approve", "complete">>

KindRank(kind) == CHOOSE n \in 1..4 : NiiKinds[n] = kind

\* C30: a run of the NII claim submits at most four transactions, at most
\* one of each kind, in the order release, clear, approve, complete; after a
\* 'clear' the 'approve' is submitted unless the run aborted in between; and
\* 'approve' and 'complete' are submitted with the same amount.
C30_TransactionsOfOneRun ==
    cmd = "nii" =>
        /\ Cardinality(AllSubmits) <= 4
        /\ \A i \in AllSubmits : \E n \in 1..4 : calls[i].kind = NiiKinds[n]
        /\ \A n \in 1..4 : Cardinality(SubmitsOf(NiiKinds[n])) <= 1
        /\ \A i \in AllSubmits : \A j \in AllSubmits :
              i < j => KindRank(calls[i].kind) < KindRank(calls[j].kind)
        /\ (Submitted("clear") /\ ~loc.caught /\ pc \notin {"confirmClear", "approve"})
              => Submitted("approve")
        /\ \A i \in SubmitsOf("approve") : \A j \in SubmitsOf("complete") :
              calls[i].amount = calls[j].amount

\* the four transactions were submitted by one run
C30_Witness ==
    /\ cmd = "nii" /\ Cardinality(AllSubmits) = 4
    /\ \E i \in SubmitsOf("approve") : \E j \in SubmitsOf("complete") :
          calls[i].amount = calls[j].amount /\ calls[i].amount # FormatUnits(0, NiiDecimals)

----------------------------------------------------------------------------
(* The fee claim without a range *)

NoRangeGiven == cmd = "fees" /\ ~IsTruthy(argv.blocks) /\ ~IsTruthy(argv.accruals)

NoRangeOutcome ==
    /\ result = Rejected("Claiming of fees failed: "
                            \o "Cannot read property 'type' of undefined")
    /\ \A i \in DOMAIN calls : calls[i].op \notin {"read", "submit", "confirm"}
    /\ provider.stopUpdate = 1

\* C31 as stated, of invocations whose gas limit, timeout and gas price are
\* valid and whose provider was created: the fee claim handler invoked with
\* neither a block range nor an accrual range rejects with 'Claiming of fees
\* failed: ...', has issued no query and submitted no transaction, and has
\* called stopUpdate exactly once.
C31_Original ==
    (NoRangeGiven /\ FeesInvocation(argv).ok /\ provider.created /\ pc = "done")
        => NoRangeOutcome

\* C31 of the runs that entered the try block: they reject with the prefixed
\* message, without query or transaction, and stopUpdate was called once
C31_WhenTryIsEntered ==
    (NoRangeGiven /\ pc = "done" /\ loc.caught) => NoRangeOutcome

====
